---- MODULE Spec2Model ----
(***************************************************************************)
(* A model of the go-xerrors error composition library.                    *)
(*                                                                         *)
(* The state is the Go heap as far as the library allocates on it: the     *)
(* pointer-typed error nodes (messageError, withWrapper, withStackTrace,   *)
(* panicError and the caller's own error types), the backing arrays of     *)
(* multiError slices, the set of error values handed out to the caller so  *)
(* far, a record of the last call (its arguments and its result), the text *)
(* last rendered, and the function that deferred Recover.  Every public    *)
(* function is one action.  Strings are sequences of one-character strings, so that        *)
(* concatenation, joining and comparison are computed, not assumed.        *)
(***************************************************************************)
EXTENDS Integers, Sequences, FiniteSets, TLC

VARIABLES heap, arrays, pool, last, calls, out, run

vars == <<heap, arrays, pool, last, calls, out, run>>

(***************************************************************************)
(* Bounds of the model.                                                    *)
(***************************************************************************)
\* the number of calls the caller makes after its sentinel errors exist
MaxCalls == 2
\* the length of the longest argument list passed to a variadic builder
MaxVals == 3
\* the number of caller frames below the calling function of a shallow stack
MaxBelow == 1

(***************************************************************************)
(* Program constants.                                                      *)
(***************************************************************************)
stackTraceDepth == 32

(***************************************************************************)
(* Strings.                                                                *)
(***************************************************************************)
Digit(d) == CASE d = 0 -> "0" [] d = 1 -> "1" [] d = 2 -> "2" [] d = 3 -> "3"
              [] d = 4 -> "4" [] d = 5 -> "5" [] d = 6 -> "6" [] d = 7 -> "7"
              [] d = 8 -> "8" [] d = 9 -> "9"

RECURSIVE Itoa(_)
\* strconv.Itoa / fmt.Sprint of a non-negative integer
Itoa(n) == IF n < 10 THEN <<Digit(n)>> ELSE Itoa(n \div 10) \o <<Digit(n % 10)>>

\* the text a nil dereference leaves instead of a message (the call panics)
NilDeref == <<"<nil dereference>">>

(***************************************************************************)
(* Error values.  A Go error is an interface value: nil, a pointer to a    *)
(* node on the heap, or a multiError slice header (backing array, length). *)
(***************************************************************************)
Nil == [t |-> "nil", a |-> 0, n |-> 0]
Ptr(a) == [t |-> "ptr", a |-> a, n |-> 0]
Slice(a, n) == [t |-> "multi", a |-> a, n |-> n]

\* the values of type any that the builders are called with
NilVal == [k |-> "nil", s |-> <<>>, n |-> 0, e |-> Nil]
ErrVal(e) == [k |-> "error", s |-> <<>>, n |-> 0, e |-> e]
StrVal(s) == [k |-> "string", s |-> s, n |-> 0, e |-> Nil]
StringerVal(s) == [k |-> "Stringer", s |-> s, n |-> 0, e |-> Nil]
IntVal(n) == [k |-> "other", s |-> <<>>, n |-> n, e |-> Nil]

\* heap nodes
messageError(msg) ==
    [kind |-> "messageError", msg |-> msg, wrapper |-> Nil, err |-> Nil, stack |-> <<>>,
     details |-> <<>>, panic |-> NilVal,
     key |-> <<>>, value |-> NilVal]
withWrapper(wrapper, err, msg) ==
    [kind |-> "withWrapper", msg |-> msg, wrapper |-> wrapper, err |-> err, stack |-> <<>>,
     details |-> <<>>, panic |-> NilVal,
     key |-> <<>>, value |-> NilVal]
withStackTrace(err, stack) ==
    [kind |-> "withStackTrace", msg |-> <<>>, wrapper |-> Nil, err |-> err, stack |-> stack,
     details |-> <<>>, panic |-> NilVal,
     key |-> <<>>, value |-> NilVal]
panicError(panic) ==
    [kind |-> "panicError", msg |-> <<>>, wrapper |-> Nil, err |-> Nil, stack |-> <<>>,
     details |-> <<>>, panic |-> panic,
     key |-> <<>>, value |-> NilVal]
\* the value type: an error with a key and a value
value(err, key, val) ==
    [kind |-> "value", msg |-> <<>>, wrapper |-> Nil, err |-> err, stack |-> <<>>,
     details |-> <<>>, panic |-> NilVal, key |-> key, value |-> val]
\* testErr{err, details, wrapped}: the error type of the tests, a struct used
\* by value
testErr(err, details, wrapped) ==
    [kind |-> "testErr", msg |-> err, wrapper |-> Nil, err |-> wrapped, stack |-> <<>>,
     details |-> details, panic |-> NilVal,
     key |-> <<>>, value |-> NilVal]

\* an error of some pointer type of the caller that implements DetailedError
\* and Unwrap: details is the text its detail method returns
detailedErr(msg, details, wrapped) ==
    [kind |-> "detailedErr", msg |-> msg, wrapper |-> Nil, err |-> wrapped, stack |-> <<>>,
     details |-> details, panic |-> NilVal,
     key |-> <<>>, value |-> NilVal]

\* the children of a multiError value: the first n slots of its backing array
Children(e) == SubSeq(arrays[e.a].elems, 1, e.n)

\* the child sequence of an error value under the arrays A: the children of a
\* multi-error, the error itself otherwise, nothing for nil
ChildrenIn(A, e) ==
    IF e = Nil THEN <<>>
    ELSE IF e.t = "multi" THEN SubSeq(A[e.a].elems, 1, e.n)
    ELSE <<e>>


(***************************************************************************)
(* The methods of the error types.                                         *)
(***************************************************************************)
\* the dynamic type of a non-nil error value
TypeOf(e) == IF e.t = "multi" THEN "multiError" ELSE heap[e.a].kind

\* err.(interface{ Unwrap() error }): the pointer types that wrap one error
HasUnwrap(e) ==
    e.t = "ptr" /\ heap[e.a].kind \in {"withWrapper", "withStackTrace", "detailedErr",
                                       "testErr", "value"}

\* Unwrap with a slip: a withWrapper hands out its wrapper, not its next error
Unwrap_Wrapper(e) ==
    IF heap[e.a].kind = "withWrapper" THEN heap[e.a].wrapper ELSE heap[e.a].err

\* withWrapper.Unwrap and withStackTrace.Unwrap: the next error of the chain
Unwrap(e) == heap[e.a].err

\* multiError.Unwrap: a copy of the list of children
multiError_Unwrap(e) == Children(e)

RECURSIVE Error(_)

\* separator written after every child of a multi-error but the last
multiError_Sep(n, len) == IF n < len THEN <<",", " ">> ELSE <<>>

RECURSIVE multiError_Items(_, _)
multiError_Items(e, n) ==
    IF n > e.n THEN <<>>
    ELSE Error(Children(e)[n]) \o multiError_Sep(n, e.n) \o multiError_Items(e, n + 1)

\* multiError.Error
multiError_Error(e) == <<"[">> \o multiError_Items(e, 1) \o <<"]">>

\* withWrapper.Error with a slip: the next error's message before the wrapper's
withWrapper_Error_Swapped(n) ==
    IF n.msg # <<>> THEN n.msg
    ELSE Error(n.err)
         \o (IF n.wrapper # Nil THEN <<":", " ">> \o Error(n.wrapper) ELSE <<>>)

\* withWrapper.Error
withWrapper_Error(n) ==
    IF n.msg # <<>> THEN n.msg
    ELSE (IF n.wrapper # Nil THEN Error(n.wrapper) \o <<":", " ">> ELSE <<>>)
         \o Error(n.err)

\* withStackTrace.Error
withStackTrace_Error(n) == Error(n.err)

\* messageError.Error
messageError_Error(n) == n.msg

RECURSIVE FormatV(_)
\* panicError.Error: fmt.Sprintf("panic: %v", e.panic)
panicError_Error(n) == <<"p", "a", "n", "i", "c", ":", " ">> \o FormatV(n.panic)

\* value.Error
value_Error(n) == Error(n.err)

\* the Error method of the caller's error type
detailedErr_Error(n) == n.msg

\* testErr.Error
testErr_Error(n) == n.msg

\* err.Error(), dispatched on the dynamic type
Error(e) ==
    IF e = Nil THEN NilDeref
    ELSE IF e.t = "multi" THEN multiError_Error(e)
    ELSE LET n == heap[e.a] IN
         CASE n.kind = "messageError" -> messageError_Error(n)
           [] n.kind = "withWrapper" -> withWrapper_Error(n)
           [] n.kind = "withStackTrace" -> withStackTrace_Error(n)
           [] n.kind = "panicError" -> panicError_Error(n)
           [] n.kind = "detailedErr" -> detailedErr_Error(n)
           [] n.kind = "testErr" -> testErr_Error(n)
           [] n.kind = "value" -> value_Error(n)

(***************************************************************************)
(* errors.Is and errors.As of the standard library, with the Is and As     *)
(* methods of withWrapper and multiError that they call.                   *)
(***************************************************************************)
\* reflect's Comparable: a slice type is not comparable, a pointer type is
Comparable(e) == e.t # "multi"

\* what a comparison gives that does not return: x == y panics, "comparing
\* uncomparable type xerrors.multiError"
ComparePanic == "panic: comparing uncomparable type"

RECURSIVE UncomparableIn(_, _)
\* the error value e cannot be compared with an equal one: it is a
\* multi-error, or a testErr around such a value
UncomparableIn(h, e) ==
    /\ e # Nil
    /\ \/ e.t = "multi"
       \/ e.t = "ptr" /\ h[e.a].kind = "testErr" /\ UncomparableIn(h, h[e.a].err)

RECURSIVE EqPanics(_, _)
\* x == y panics: x and y are testErr values with equal strings whose wrapped
\* errors are both multi-errors, or both testErr values whose comparison panics
EqPanics(x, y) ==
    /\ x.t = "ptr" /\ y.t = "ptr"
    /\ heap[x.a].kind = "testErr" /\ heap[y.a].kind = "testErr"
    /\ heap[x.a].msg = heap[y.a].msg
    /\ heap[x.a].details = heap[y.a].details
    /\ LET a == heap[x.a].err
           b == heap[y.a].err
       IN /\ a # Nil /\ b # Nil
          /\ \/ a.t = "multi" /\ b.t = "multi"
             \/ EqPanics(a, b)

\* what a call of errors.Is, or of an Is method, gives: it returns true, it
\* returns false, or it does not return because a comparison in it panicked
IsTrue == "true"
IsFalse == "false"

RECURSIVE errors_Is(_, _), errors_is(_, _, _)
RECURSIVE multiError_IsLoop(_, _, _), errors_isLoop(_, _, _, _)

\* withWrapper.Is with a slip: the wrapper is not asked
withWrapper_Is_NextOnly(n, target) == errors_Is(n.err, target)

\* withWrapper.Is: a || b asks the next error only when the wrapper gave
\* false, and a panic of either call leaves the method
withWrapper_Is(n, target) ==
    LET a == errors_Is(n.wrapper, target)
    IN IF a # IsFalse THEN a ELSE errors_Is(n.err, target)

\* multiError.Is with a slip: the children are compared by their messages
multiError_Is_ByText(e, target) ==
    IF \E i \in 1..e.n : Error(Children(e)[i]) = Error(target)
    THEN IsTrue ELSE IsFalse

\* the loop of multiError.Is from child i on: the first child that does not
\* give false decides
multiError_IsLoop(e, target, i) ==
    IF i > e.n THEN IsFalse
    ELSE LET r == errors_Is(Children(e)[i], target)
         IN IF r # IsFalse THEN r ELSE multiError_IsLoop(e, target, i + 1)

\* multiError.Is
multiError_Is(e, target) == multiError_IsLoop(e, target, 1)

\* err.(interface{ Is(error) bool }) && x.Is(target)
MethodIs(err, target) ==
    IF err.t = "multi" THEN multiError_Is(err, target)
    ELSE IF heap[err.a].kind = "withWrapper" THEN withWrapper_Is(heap[err.a], target)
    ELSE IsFalse

\* the loop of errors.is over the result of Unwrap() []error, from i on
errors_isLoop(errs, target, targetComparable, i) ==
    IF i > Len(errs) THEN IsFalse
    ELSE LET r == errors_is(errs[i], target, targetComparable)
         IN IF r # IsFalse THEN r
            ELSE errors_isLoop(errs, target, targetComparable, i + 1)

errors_is(err, target, targetComparable) ==
    IF err = Nil THEN IsFalse
    ELSE IF targetComparable /\ EqPanics(err, target) THEN ComparePanic
    ELSE IF targetComparable /\ err = target THEN IsTrue
    ELSE LET m == MethodIs(err, target)
         IN IF m # IsFalse THEN m
            ELSE IF HasUnwrap(err) THEN errors_is(Unwrap(err), target, targetComparable)
            ELSE IF err.t = "multi"
                 THEN errors_isLoop(multiError_Unwrap(err), target, targetComparable, 1)
            ELSE IsFalse

errors_Is(err, target) ==
    IF err = Nil \/ target = Nil
    THEN IF err = target THEN IsTrue ELSE IsFalse
    ELSE errors_is(err, target, Comparable(target))

\* the error e can be compared with == and no panic: it is not a value of an
\* uncomparable type, and not a struct value that holds one
CanCompare(e) == e # Nil /\ ~UncomparableIn(heap, e)

\* errors.Is returned true
Matches(err, target) == errors_Is(err, target) = IsTrue

\* errors.Is returned false
NoMatch(err, target) == errors_Is(err, target) = IsFalse

\* errors.Is did not return: a comparison in it panicked
IsPanics(err, target) == errors_Is(err, target) = ComparePanic

\* the types an errors.As target may point to
Types == {"messageError", "withWrapper", "withStackTrace", "multiError", "panicError",
          "detailedErr", "testErr", "value", "error"}

\* reflect's AssignableTo: the same type, or the interface type error
AssignableTo(type, targetType) == targetType = "error" \/ type = targetType

RECURSIVE errors_As(_, _)

\* withWrapper.As
withWrapper_As(n, target) == errors_As(n.wrapper, target) \/ errors_As(n.err, target)

\* multiError.As
multiError_As(e, target) ==
    \E i \in 1..e.n : errors_As(Children(e)[i], target)

\* err.(interface{ As(any) bool }) && x.As(target)
MethodAs(err, target) ==
    IF err.t = "multi" THEN multiError_As(err, target)
    ELSE heap[err.a].kind = "withWrapper" /\ withWrapper_As(heap[err.a], target)

errors_As(err, target) ==
    IF err = Nil THEN FALSE
    ELSE IF AssignableTo(TypeOf(err), target) THEN TRUE
    ELSE IF MethodAs(err, target) THEN TRUE
    ELSE IF HasUnwrap(err) THEN errors_As(Unwrap(err), target)
    ELSE IF err.t = "multi"
         THEN \E i \in 1..err.n : errors_As(multiError_Unwrap(err)[i], target)
    ELSE FALSE

(***************************************************************************)
(* Stack capture.  A call stack is a sequence of function names, innermost *)
(* first.                                                                  *)
(***************************************************************************)
Take(s, n) == SubSeq(s, 1, IF Len(s) < n THEN Len(s) ELSE n)
Drop(s, n) == SubSeq(s, n + 1, Len(s))

\* runtime.Callers(skip, b): the frames left after skipping, as many as b holds
runtime_Callers(skip, stk, size) == Take(Drop(stk, skip), size)

\* callers with a slip: one frame too few is skipped
callers_SkipLess(skip, stk) ==
    runtime_Callers(skip + 1, <<"runtime.Callers", "callers">> \o stk, stackTraceDepth)

\* callers(skip), called by the function on top of stk
callers(skip, stk) ==
    runtime_Callers(skip + 2, <<"runtime.Callers", "callers">> \o stk, stackTraceDepth)

\* err.(interface{ StackTrace() Callers })
HasStackTrace(e) == e.t = "ptr" /\ heap[e.a].kind = "withStackTrace"

RECURSIVE StackTraceLoop_First(_, _)
\* the loop of StackTrace with a slip: it returns at the first stack it meets
StackTraceLoop_First(err, cs) ==
    IF err = Nil THEN cs
    ELSE IF HasStackTrace(err) THEN heap[err.a].stack
    ELSE IF HasUnwrap(err) THEN StackTraceLoop_First(Unwrap(err), cs) ELSE cs

RECURSIVE StackTraceLoop_Wrapper(_, _)
\* the loop of StackTrace with a slip: it goes on with the wrapper of a
\* withWrapper, not with its next error
StackTraceLoop_Wrapper(err, cs) ==
    IF err = Nil THEN cs
    ELSE LET c == IF HasStackTrace(err) THEN heap[err.a].stack ELSE cs IN
         IF HasUnwrap(err)
         THEN StackTraceLoop_Wrapper(IF heap[err.a].kind = "withWrapper"
                                     THEN heap[err.a].wrapper ELSE Unwrap(err), c)
         ELSE c

RECURSIVE StackTraceLoop(_, _)
\* the loop of StackTrace: every stack met replaces the one met before
StackTraceLoop(err, cs) ==
    IF err = Nil THEN cs
    ELSE LET c == IF HasStackTrace(err) THEN heap[err.a].stack ELSE cs IN
         IF HasUnwrap(err) THEN StackTraceLoop(Unwrap(err), c) ELSE c

\* StackTrace(err)
StackTrace(err) == StackTraceLoop(err, <<>>)


(***************************************************************************)
(* The builders.  A builder that allocates takes the heap (or the arrays)  *)
(* and returns it with its result.                                         *)
(***************************************************************************)
\* &T{...}: a new node at the next free address
Alloc(h, node) == [heap |-> Append(h, node), ret |-> Ptr(Len(h) + 1)]

\* testErr{...}, a struct used by value: values with equal fields are the
\* same error, so a node is made only when no equal one exists; a value
\* around an error that cannot be compared equals no value, and is a node of
\* its own
AllocValue(h, node) ==
    LET same == {a \in 1..Len(h) : h[a] = node} IN
    IF same = {} \/ UncomparableIn(h, node.err) THEN Alloc(h, node)
    ELSE [heap |-> h, ret |-> Ptr(CHOOSE a \in same : TRUE)]

\* Message(msg)
Message(h, msg) == Alloc(h, messageError(msg))

\* toError(val)
toError(h, val) ==
    CASE val.k = "error" -> [heap |-> h, ret |-> val.e]
      [] val.k = "string" -> Alloc(h, messageError(val.s))
      [] val.k = "Stringer" -> Alloc(h, messageError(val.s))
      [] OTHER -> Alloc(h, messageError(Itoa(val.n)))

RECURSIVE JoinLoop(_, _, _, _)
\* the loop of Join, from the last value to the first
JoinLoop(vals, i, h, wErr) ==
    IF i < 1 THEN [heap |-> h, ret |-> wErr]
    ELSE IF vals[i].k = "nil" THEN JoinLoop(vals, i - 1, h, wErr)
    ELSE LET c == toError(h, vals[i]) IN
         IF wErr = Nil THEN JoinLoop(vals, i - 1, c.heap, c.ret)
         ELSE LET w == Alloc(c.heap, withWrapper(c.ret, wErr, <<>>)) IN
              JoinLoop(vals, i - 1, w.heap, w.ret)

\* Join(vals...)
Join(h, vals) == JoinLoop(vals, Len(vals), h, Nil)

\* New with a slip: the result of Join is wrapped without the nil check
New_NoNilCheck(h, vals, stk) ==
    LET j == Join(h, vals) IN
    Alloc(j.heap, withStackTrace(j.ret, callers(1, <<"New">> \o stk)))

\* New(vals...), called by the function on top of stk
New(h, vals, stk) ==
    LET j == Join(h, vals) IN
    IF j.ret = Nil THEN [heap |-> h, ret |-> Nil]
    ELSE Alloc(j.heap, withStackTrace(j.ret, callers(1, <<"New">> \o stk)))

\* WithStackTrace(err, skip), called by the function on top of stk
WithStackTrace(h, err, skip, stk) ==
    IF err = Nil THEN [heap |-> h, ret |-> Nil]
    ELSE Alloc(h, withStackTrace(err, callers(skip + 1, <<"WithStackTrace">> \o stk)))

\* WithValue(err, key, val)
WithValue(h, err, key, val) ==
    IF err = Nil THEN [heap |-> h, ret |-> Nil]
    ELSE Alloc(h, value(err, key, val))

\* value.Value
value_Value(n) == [key |-> n.key, value |-> n.value]

\* errors.Unwrap(err): the result of Unwrap() error, nil without that method
errors_Unwrap(err) == IF HasUnwrap(err) THEN Unwrap(err) ELSE Nil

RECURSIVE ValuesLoop_Inner(_, _)
\* the loop of Values with a slip: a key met again replaces the value
ValuesLoop_Inner(err, vals) ==
    IF err = Nil THEN vals
    ELSE IF err.t = "ptr" /\ heap[err.a].kind = "value"
         THEN LET kv == value_Value(heap[err.a]) IN
              ValuesLoop_Inner(errors_Unwrap(err),
                               [k \in DOMAIN vals \cup {kv.key} |->
                                   IF k = kv.key THEN kv.value ELSE vals[k]])
    ELSE ValuesLoop_Inner(errors_Unwrap(err), vals)

RECURSIVE ValuesLoop(_, _)
\* the loop of Values: the map vals is filled down the chain of errors.Unwrap,
\* a key that is in the map already is skipped
ValuesLoop(err, vals) ==
    IF err = Nil THEN vals
    ELSE IF err.t = "ptr" /\ heap[err.a].kind = "value"
         THEN LET kv == value_Value(heap[err.a]) IN
              IF kv.key \in DOMAIN vals THEN ValuesLoop(errors_Unwrap(err), vals)
              ELSE ValuesLoop(errors_Unwrap(err),
                              [k \in DOMAIN vals \cup {kv.key} |->
                                  IF k = kv.key THEN kv.value ELSE vals[k]])
    ELSE ValuesLoop(errors_Unwrap(err), vals)

\* Values(err): a map from keys to values, empty at first
Values(err) == ValuesLoop(err, [k \in {} |-> NilVal])

(***************************************************************************)
(* Append and Go's slices.  A backing array has a capacity and that many   *)
(* slots; a multiError value sees the first n of them.  The local slice me *)
(* of Append is either a view of a stored array (a # 0), which it shares   *)
(* with every multiError made from that array, or a new array (a = 0).     *)
(***************************************************************************)
\* the capacity Go's append gives a full slice of capacity cap that grows by one
growslice(cap) == IF cap = 0 THEN 1 ELSE 2 * cap

\* append(me, e) on the local slice me, with its writes to the stored arrays
append(st, e) ==
    LET me == st.me IN
    IF Len(me.elems) < me.cap
    THEN [arrays |-> IF me.a = 0 THEN st.arrays
                     ELSE [st.arrays EXCEPT ![me.a].elems[Len(me.elems) + 1] = e],
          me |-> [me EXCEPT !.elems = Append(me.elems, e)]]
    ELSE [arrays |-> st.arrays,
          me |-> [a |-> 0, elems |-> Append(me.elems, e), cap |-> growslice(me.cap)]]

\* the first branch of Append with a slip: a multi-error is taken as one error
AppendFirst_Nested(A, err) ==
    IF err = Nil THEN [a |-> 0, elems |-> <<>>, cap |-> 0]
    ELSE [a |-> 0, elems |-> <<err>>, cap |-> 1]

\* the first branch of Append: me after looking at err
AppendFirst(A, err) ==
    IF err = Nil THEN [a |-> 0, elems |-> <<>>, cap |-> 0]
    ELSE IF err.t = "multi"
         THEN [a |-> err.a, elems |-> SubSeq(A[err.a].elems, 1, err.n), cap |-> A[err.a].cap]
    ELSE [a |-> 0, elems |-> <<err>>, cap |-> 1]

RECURSIVE AppendLoop(_, _, _)
\* the loop of Append over errs
AppendLoop(st, errs, i) ==
    IF i > Len(errs) THEN st
    ELSE IF errs[i] # Nil THEN AppendLoop(append(st, errs[i]), errs, i + 1)
    ELSE AppendLoop(st, errs, i + 1)

\* the end of Append with a slip: a list of one error is returned as a list
AppendResult_AlwaysList(st) ==
    LET me == st.me IN
    IF Len(me.elems) = 0 THEN [arrays |-> st.arrays, ret |-> Nil]
    ELSE IF me.a # 0 THEN [arrays |-> st.arrays, ret |-> Slice(me.a, Len(me.elems))]
    ELSE [arrays |-> Append(st.arrays,
                            [cap |-> me.cap,
                             elems |-> [i \in 1..me.cap |->
                                          IF i <= Len(me.elems) THEN me.elems[i] ELSE Nil]]),
          ret |-> Slice(Len(st.arrays) + 1, Len(me.elems))]

\* the switch that ends Append: nil, the only error, or the list
AppendResult(st) ==
    LET me == st.me IN
    IF Len(me.elems) = 0 THEN [arrays |-> st.arrays, ret |-> Nil]
    ELSE IF Len(me.elems) = 1 THEN [arrays |-> st.arrays, ret |-> me.elems[1]]
    ELSE IF me.a # 0 THEN [arrays |-> st.arrays, ret |-> Slice(me.a, Len(me.elems))]
    ELSE [arrays |-> Append(st.arrays,
                            [cap |-> me.cap,
                             elems |-> [i \in 1..me.cap |->
                                          IF i <= Len(me.elems) THEN me.elems[i] ELSE Nil]]),
          ret |-> Slice(Len(st.arrays) + 1, Len(me.elems))]

\* Append(err, errs...)
xerrors_Append(A, err, errs) ==
    AppendResult(AppendLoop([arrays |-> A, me |-> AppendFirst(A, err)], errs, 1))

RECURSIVE Accumulate(_, _, _, _)
\* the caller's way of collecting errors: err = Append(err, e) for every e
Accumulate(A, err, errs, i) ==
    IF i > Len(errs) THEN [arrays |-> A, ret |-> err]
    ELSE LET r == xerrors_Append(A, err, <<errs[i]>>) IN
         Accumulate(r.arrays, r.ret, errs, i + 1)


(***************************************************************************)
(* Joinf and Newf, with fmt.Errorf of the standard library.  A format is a *)
(* sequence of pieces: literal text, the verb %v or the verb %w; the verbs *)
(* take the arguments in order.                                            *)
(***************************************************************************)
Lit(s) == [k |-> "lit", s |-> s]
VerbV == [k |-> "v", s |-> <<>>]
VerbW == [k |-> "w", s |-> <<>>]

\* the operand numbers of the verbs of a format: piece i takes argument ArgNum(format, i)
ArgNum(format, i) == Cardinality({j \in 1..i : format[j].k # "lit"})
NumVerbs(format) == ArgNum(format, Len(format))

\* the type name fmt prints for an operand it cannot format
TypeName(val) == IF val.k = "string" THEN <<"s", "t", "r", "i", "n", "g">> ELSE <<"i", "n", "t">>

\* what %v prints for an operand
FormatV(val) ==
    CASE val.k = "nil" -> <<"<", "n", "i", "l", ">">>
      [] val.k = "error" -> Error(val.e)
      [] val.k = "string" -> val.s
      [] val.k = "Stringer" -> val.s
      [] val.k = "runtime.Error" -> val.s
      [] OTHER -> Itoa(val.n)

\* what %w prints: an error as %v does, anything else as a bad verb
FormatW(val) ==
    CASE val.k = "error" -> Error(val.e)
      [] val.k = "nil" -> <<"%", "!", "w", "(", "<", "n", "i", "l", ">", ")">>
      [] OTHER -> <<"%", "!", "w", "(">> \o TypeName(val) \o <<"=">> \o FormatV(val) \o <<")">>

RECURSIVE Sprintf(_, _, _)
\* the formatted text of the pieces i.. of a format
Sprintf(format, args, i) ==
    IF i > Len(format) THEN <<>>
    ELSE (CASE format[i].k = "lit" -> format[i].s
            [] format[i].k = "v" -> FormatV(args[ArgNum(format, i)])
            [] format[i].k = "w" -> FormatW(args[ArgNum(format, i)]))
         \o Sprintf(format, args, i + 1)

\* p.wrappedErrs: the argument numbers of the %w verbs, in order
wrappedErrs(format) ==
    LET W == {i \in 1..Len(format) : format[i].k = "w"}
        nth[k \in 0..Cardinality(W)] ==
            IF k = 0 THEN 0 ELSE CHOOSE i \in W : i > nth[k - 1] /\ \A j \in W : j > nth[k - 1] => i <= j
    IN [k \in 1..Cardinality(W) |-> ArgNum(format, nth[k])]

\* a[argNum].(error): the operand if it is a non-nil error, else nil
AsError(val) == IF val.k = "error" THEN val.e ELSE Nil

RECURSIVE ErrorOperands(_, _, _)
\* the errs of a wrapErrors: the %w operands that are errors
ErrorOperands(ws, args, i) ==
    IF i > Len(ws) THEN <<>>
    ELSE (IF AsError(args[ws[i]]) # Nil THEN <<AsError(args[ws[i]])>> ELSE <<>>)
         \o ErrorOperands(ws, args, i + 1)

\* fmt.Errorf(format, args...): an errorString, a wrapError or a wrapErrors
fmt_Errorf(format, args) ==
    LET ws == wrappedErrs(format)
        s == Sprintf(format, args, 1)
    IN CASE Len(ws) = 0 -> [type |-> "errorString", msg |-> s, err |-> Nil, errs |-> <<>>]
         [] Len(ws) = 1 -> [type |-> "wrapError", msg |-> s, err |-> AsError(args[ws[1]]),
                            errs |-> <<>>]
         [] OTHER -> [type |-> "wrapErrors", msg |-> s, err |-> Nil,
                      errs |-> ErrorOperands(ws, args, 1)]

RECURSIVE JoinfLoop_Swapped(_, _, _, _)
\* the loop of Joinf with a slip: the chain so far becomes the wrapper and
\* the error the next error
JoinfLoop_Swapped(errs, i, h, wErr) ==
    IF i < 1 THEN [heap |-> h, ret |-> wErr]
    ELSE IF errs[i] = Nil THEN JoinfLoop_Swapped(errs, i - 1, h, wErr)
    ELSE IF wErr = Nil THEN JoinfLoop_Swapped(errs, i - 1, h, errs[i])
    ELSE LET w == Alloc(h, withWrapper(wErr, errs[i], <<>>)) IN
         JoinfLoop_Swapped(errs, i - 1, w.heap, w.ret)

RECURSIVE JoinfLoop(_, _, _, _)
\* the loop of Joinf over the errors of a wrapErrors, from the last to the first
JoinfLoop(errs, i, h, wErr) ==
    IF i < 1 THEN [heap |-> h, ret |-> wErr]
    ELSE IF errs[i] = Nil THEN JoinfLoop(errs, i - 1, h, wErr)
    ELSE IF wErr = Nil THEN JoinfLoop(errs, i - 1, h, errs[i])
    ELSE LET w == Alloc(h, withWrapper(errs[i], wErr, <<>>)) IN
         JoinfLoop(errs, i - 1, w.heap, w.ret)

\* the end of the second case of Joinf: the message overwrites that of the chain
JoinfOverwrite(l, msg) ==
    IF l.ret # Nil /\ l.ret.t = "ptr" /\ l.heap[l.ret.a].kind = "withWrapper"
    THEN [heap |-> [l.heap EXCEPT ![l.ret.a].msg = msg], ret |-> l.ret]
    ELSE Alloc(l.heap, withWrapper(Nil, l.ret, msg))

\* Joinf with a slip: the wrapped errors are dropped, the message is kept
Joinf_NoWrap(h, format, args) == Alloc(h, messageError(fmt_Errorf(format, args).msg))

\* Joinf(format, args...)
Joinf(h, format, args) ==
    LET err == fmt_Errorf(format, args) IN
    CASE err.type = "wrapError" -> Alloc(h, withWrapper(Nil, err.err, err.msg))
      [] err.type = "wrapErrors" ->
            JoinfOverwrite(JoinfLoop(err.errs, Len(err.errs), h, Nil), err.msg)
      [] OTHER -> Alloc(h, messageError(err.msg))

\* Newf(format, args...), called by the function on top of stk
Newf(h, format, args, stk) ==
    LET j == Joinf(h, format, args) IN
    Alloc(j.heap, withStackTrace(j.ret, callers(1, <<"Newf">> \o stk)))


\* Messagef with a slip: an error with the same message is reused when the
\* caller holds one
Messagef_Interned(h, format, args) ==
    LET msg == Sprintf(format, args, 1)
        same == {a \in 1..Len(h) : h[a] = messageError(msg)}
    IN IF same = {} THEN Alloc(h, messageError(msg))
       ELSE [heap |-> h, ret |-> Ptr(CHOOSE a \in same : TRUE)]

\* Messagef(format, args...), for a format without %w
Messagef(h, format, args) == Alloc(h, messageError(Sprintf(format, args, 1)))

(***************************************************************************)
(* Panics.  A function that runs `defer Recover(fn)` is in its body, then  *)
(* either returns or panics; the deferred call runs in both cases, on top  *)
(* of the frames that are on the stack at that moment.                     *)
(***************************************************************************)
\* the values of the runtime: what recover() returns for panic(nil) from Go
\* 1.21 on, and what a nil dereference panics with
PanicNilError ==
    [k |-> "runtime.Error", s |-> <<"panic called with nil argument (obsolete)">>,
     n |-> 0, e |-> Nil]
RuntimeError ==
    [k |-> "runtime.Error",
     s |-> <<"runtime error: invalid memory address or nil pointer dereference">>,
     n |-> 0, e |-> Nil]

\* recover() in a call deferred by the function of r: the value of the panic
\* while r panics, nil otherwise; for panic(nil) it is nil before Go 1.21 and
\* with GODEBUG=panicnil=1, and a *runtime.PanicNilError otherwise
recover(r) ==
    IF r.pc # "panicking" THEN {NilVal}
    ELSE IF r.panic = NilVal THEN {NilVal, PanicNilError}
    ELSE {r.panic}

\* the frames below a call deferred by the function of r: while r panics the
\* call is made by runtime.gopanic, which runs on top of the frames that
\* raised the panic; on return it is made by the function itself
DeferStack(r) ==
    IF r.pc = "panicking" THEN <<"gopanic">> \o r.raised \o r.stk ELSE r.stk

\* Recover with a slip: the stack is captured one frame too high
Recover_SkipLess(h, rec, stk) ==
    IF rec # NilVal
    THEN LET p == Alloc(h, panicError(rec))
             e == Alloc(p.heap, withStackTrace(p.ret, callers(1, <<"Recover">> \o stk)))
         IN [heap |-> e.heap, ret |-> e.ret, called |-> TRUE]
    ELSE [heap |-> h, ret |-> Nil, called |-> FALSE]

\* Recover with a slip: fn is called also when recover() returns nil
Recover_Always(h, rec, stk) ==
    LET p == Alloc(h, panicError(rec))
        e == Alloc(p.heap, withStackTrace(p.ret, callers(2, <<"Recover">> \o stk)))
    IN [heap |-> e.heap, ret |-> e.ret, called |-> TRUE]

\* Recover(fn), where recover() returns rec and the frames below are stk:
\* whether fn is called, and the error it is passed
Recover(h, rec, stk) ==
    IF rec # NilVal
    THEN LET p == Alloc(h, panicError(rec))
             e == Alloc(p.heap, withStackTrace(p.ret, callers(2, <<"Recover">> \o stk)))
         IN [heap |-> e.heap, ret |-> e.ret, called |-> TRUE]
    ELSE [heap |-> h, ret |-> Nil, called |-> FALSE]

\* FromRecover with a slip: nil is wrapped as any other value
FromRecover_NoNilCheck(h, r, stk) ==
    LET p == Alloc(h, panicError(r))
    IN Alloc(p.heap, withStackTrace(p.ret, callers(3, <<"FromRecover">> \o stk)))

\* FromRecover(r), called by the function on top of stk
FromRecover(h, r, stk) ==
    IF r = NilVal THEN [heap |-> h, ret |-> Nil]
    ELSE LET p == Alloc(h, panicError(r))
         IN Alloc(p.heap, withStackTrace(p.ret, callers(3, <<"FromRecover">> \o stk)))

\* panicError.Panic
panicError_Panic(n) == n.panic

(***************************************************************************)
(* Rendering: Sprint, Fprint and Print, with the detail methods of the     *)
(* error types (the DetailedError interface).                              *)
(***************************************************************************)
NL == "\n"
TAB == "\t"

firstErrorPrefix == <<"E", "r", "r", "o", "r", ":", " ">>
previousErrorPrefix ==
    <<"P", "r", "e", "v", "i", "o", "u", "s", " ", "e", "r", "r", "o", "r", ":", " ">>

\* strings.HasSuffix(s, "\n")
HasSuffixNL(s) == Len(s) > 0 /\ s[Len(s)] = NL

RECURSIVE ReplaceNL(_)
\* strings.ReplaceAll(s, "\n", "\n\t"): each newline of s, wherever it is, is
\* followed by a tab; the text is split in halves to keep the evaluation shallow
ReplaceNL(s) ==
    IF s = <<>> THEN <<>>
    ELSE IF Len(s) = 1 THEN (IF s[1] = NL THEN <<NL, TAB>> ELSE s)
    ELSE LET h == Len(s) \div 2 IN
         ReplaceNL(SubSeq(s, 1, h)) \o ReplaceNL(SubSeq(s, h + 1, Len(s)))

\* indent(s): every line but the first gets a tab
indent(s) ==
    IF HasSuffixNL(s) THEN ReplaceNL(SubSeq(s, 1, Len(s) - 1)) \o <<NL>>
    ELSE ReplaceNL(s)

\* the frame runtime.CallersFrames gives for a program counter in function fn
Frame(fn) == [File |-> <<fn, ".", "g", "o">>, Line |-> 1,
              Function |-> <<"m", "o", "d", "/", "p", "k", "g", ".", fn>>]

RECURSIVE shortname(_)
\* shortname(name): the name after its last "/"
shortname(name) ==
    IF \E i \in 1..Len(name) : name[i] = "/"
    THEN shortname(Tail(name))
    ELSE name

\* Frame.writeFrame
writeFrame(f) ==
    <<TAB, "a", "t", " ">> \o shortname(f.Function) \o <<" ", "(">> \o f.File
        \o <<":">> \o Itoa(f.Line) \o <<")">>

\* the frame of a new slice element, and of Next() with no frame left
ZeroFrame == [File |-> <<>>, Line |-> 0, Function |-> <<>>]

\* the mark a run-time panic leaves in the text that was being built: the
\* caller is never returned that text
IndexOutOfRange == "panic: index out of range"

Panicked(text) == \E i \in 1..Len(text) : text[i] = IndexOutOfRange

\* Callers.Frames with a slip: no frame is stored for an empty c
Callers_Frames_Guarded(c) ==
    [panic |-> FALSE, frames |-> [i \in 1..Len(c) |-> Frame(c[i])]]

RECURSIVE FramesLoop(_, _, _)
\* the loop of Callers.Frames with n frames stored in r: f.Next() gives the
\* frame of the next program counter, the zero frame when there is none, and
\* more, whether another is left; r[n] is assigned before more is looked at
FramesLoop(c, r, n) ==
    LET frame == IF n < Len(c) THEN Frame(c[n + 1]) ELSE ZeroFrame
        more == n + 1 < Len(c)
    IN IF n >= Len(r) THEN [panic |-> TRUE, frames |-> r]
       ELSE LET r2 == [r EXCEPT ![n + 1] = frame] IN
            IF more THEN FramesLoop(c, r2, n + 1) ELSE [panic |-> FALSE, frames |-> r2]

\* Callers.Frames: the frames, or the panic of an index out of range
Callers_Frames(c) == FramesLoop(c, [i \in 1..Len(c) |-> ZeroFrame], 0)

RECURSIVE writeFrames(_)
\* the loop of Callers.writeTrace over the frames
writeFrames(frames) ==
    IF frames = <<>> THEN <<>>
    ELSE writeFrame(Head(frames)) \o <<NL>> \o writeFrames(Tail(frames))

\* Callers.writeTrace, and with it Callers.String
writeTrace(c) ==
    LET r == Callers_Frames(c) IN
    IF r.panic THEN <<IndexOutOfRange>> ELSE writeFrames(r.frames)

\* Callers.String
Callers_String(c) == writeTrace(c)

\* err.(DetailedError), the types with a method ErrorDetails: testErr has
\* none
IsDetailed(e) ==
    \/ e.t = "multi"
    \/ e.t = "ptr" /\ heap[e.a].kind \in {"withWrapper", "withStackTrace", "detailedErr"}

RECURSIVE ErrorDetails(_), writeErrLoop(_, _)

RECURSIVE WrapperDetails(_)
\* the loop of withWrapper.ErrorDetails: the details of the first error on the
\* chain of the wrapper that has the method
WrapperDetails(err) ==
    IF err = Nil THEN <<>>
    ELSE IF IsDetailed(err) THEN ErrorDetails(err)
    ELSE IF HasUnwrap(err) THEN WrapperDetails(Unwrap(err))
    ELSE <<>>

\* withWrapper.ErrorDetails with a slip: the wrapper is not looked at
withWrapper_ErrorDetails_None(n) == <<>>

\* withWrapper.ErrorDetails
withWrapper_ErrorDetails(n) == WrapperDetails(n.wrapper)

\* withStackTrace.ErrorDetails
withStackTrace_ErrorDetails(n) == writeTrace(n.stack)

RECURSIVE multiError_DetailItems(_, _)
\* the loop of multiError.ErrorDetails
multiError_DetailItems(e, n) ==
    IF n > e.n THEN <<>>
    ELSE Itoa(n) \o <<".", " ">> \o writeErrLoop(Children(e)[n], TRUE)
         \o multiError_DetailItems(e, n + 1)

\* multiError.ErrorDetails
multiError_ErrorDetails(e) == IF e.n = 0 THEN <<>> ELSE multiError_DetailItems(e, 1)

\* the detail method of the caller's error type: the text it was given
detailedErr_ErrorDetails(n) == n.details

\* testErr.DetailedError: the message and the details, a newline after each;
\* writeErr calls ErrorDetails and so never calls it
testErr_DetailedError(n) == n.msg \o <<NL>> \o n.details \o <<NL>>

\* dErr.ErrorDetails(), dispatched on the dynamic type
ErrorDetails(e) ==
    IF e.t = "multi" THEN multiError_ErrorDetails(e)
    ELSE LET n == heap[e.a] IN
         CASE n.kind = "withWrapper" -> withWrapper_ErrorDetails(n)
           [] n.kind = "withStackTrace" -> withStackTrace_ErrorDetails(n)
           [] n.kind = "detailedErr" -> detailedErr_ErrorDetails(n)

\* the block of writeErr with a slip: no newline is added after the details
writeBlock_NoNewline(prefix, errMsg, errDetails) ==
    prefix \o errMsg \o <<NL, TAB>> \o indent(errDetails)

\* the block writeErr writes for an error with details
writeBlock(prefix, errMsg, errDetails) ==
    prefix \o errMsg \o <<NL, TAB>> \o indent(errDetails)
        \o (IF ~HasSuffixNL(errDetails) THEN <<NL>> ELSE <<>>)

\* the details writeErr finds for an error
DetailsOf(err) == IF IsDetailed(err) THEN ErrorDetails(err) ELSE <<>>

\* the body of the loop of writeErr with a slip: every block opens with "Error: "
writeErrStep_OnePrefix(err, first) ==
    IF DetailsOf(err) # <<>>
    THEN writeBlock(firstErrorPrefix, Error(err), DetailsOf(err))
    ELSE IF first THEN firstErrorPrefix \o Error(err) \o <<NL>> ELSE <<>>

\* the body of the loop of writeErr with a slip: an error without details is
\* written also when it is not the first
writeErrStep_EveryError(err, first) ==
    IF DetailsOf(err) # <<>>
    THEN writeBlock(IF first THEN firstErrorPrefix ELSE previousErrorPrefix,
                    Error(err), DetailsOf(err))
    ELSE (IF first THEN firstErrorPrefix ELSE previousErrorPrefix) \o Error(err) \o <<NL>>

\* the body of the loop of writeErr: what is written for one error
writeErrStep(err, first) ==
    IF DetailsOf(err) # <<>>
    THEN writeBlock(IF first THEN firstErrorPrefix ELSE previousErrorPrefix,
                    Error(err), DetailsOf(err))
    ELSE IF first THEN firstErrorPrefix \o Error(err) \o <<NL>> ELSE <<>>

\* the loop of writeErr, down the Unwrap chain
writeErrLoop(err, first) ==
    IF err = Nil THEN <<>>
    ELSE writeErrStep(err, first)
         \o (IF HasUnwrap(err) THEN writeErrLoop(Unwrap(err), FALSE) ELSE <<>>)

\* writeErr(buf, err): the text written to the empty buffer
writeErr(err) == writeErrLoop(err, TRUE)

\* Sprint(err)
Sprint(err) == writeErr(err)

\* Fprint(w, err): the text written to w
Fprint(err) == writeErr(err)

\* Print(err): the text written to errWriter
xerrors_Print(err) == writeErr(err)

\* an io.Writer: it takes room bytes at most, any number when room is
\* negative, none when it is closed
Writer(room, closed) == [k |-> "io.Writer", room |-> room, closed |-> closed]

\* the errors of a writer
ErrClosed == [k |-> "error", s |-> <<"closed">>, n |-> 0, e |-> Nil]
ErrShortWrite == [k |-> "error", s |-> <<"short write">>, n |-> 0, e |-> Nil]

\* w.Write(p): the number of bytes taken and the error, an error whenever
\* fewer than len(p) bytes were taken
Write(w, p) ==
    IF w.closed THEN [n |-> 0, err |-> ErrClosed]
    ELSE IF w.room < 0 \/ Len(p) <= w.room THEN [n |-> Len(p), err |-> NilVal]
    ELSE [n |-> w.room, err |-> ErrShortWrite]

\* Fprint with a slip: the error of the writer is dropped
Fprint_Results_Swallowed(w, err) == <<Write(w, Fprint(err)).n, NilVal>>

\* the results of Fprint(w, err): those of w.Write
Fprint_Results(w, err) ==
    LET r == Write(w, Fprint(err)) IN <<r.n, r.err>>

\* Print with a slip: a failure of errWriter.Write is raised as a panic
Print_Outcome_Panics(w, err) ==
    LET r == Write(w, xerrors_Print(err))
    IN [handed |-> xerrors_Print(err), panic |-> r.err, results |-> <<>>]

\* Print(err) with errWriter = w: the text handed to errWriter.Write, the
\* value the call panics with (none: it returns) and its results (none); what
\* errWriter.Write returns is not read
Print_Outcome(w, err) ==
    [handed |-> xerrors_Print(err), panic |-> NilVal, results |-> <<>>]


(***************************************************************************)
(* The inputs of the calls.                                                *)
(***************************************************************************)
\* message texts
Texts == {<<>>, <<"a">>}

\* the values a variadic builder may be passed: nil, a string, a Stringer, an
\* integer, or an error the caller holds
Vals == {NilVal, StrVal(<<"a">>), StringerVal(<<"b">>), IntVal(42)}
        \cup {ErrVal(e) : e \in pool}

\* the same without the Stringer and the integer
FewVals == {NilVal, StrVal(<<"a">>)} \cup {ErrVal(e) : e \in pool}

SeqsUpTo(S, len) == UNION {[1..n -> S] : n \in 0..len}

\* the error arguments of Append and WithStackTrace
Errs == {Nil} \cup pool

\* the operands of a formatted builder
FmtVals == {NilVal, StrVal(<<"a">>), IntVal(42)} \cup {ErrVal(e) : e \in pool}

\* the formats of the formatted builders
Formats == { <<>>,
             <<Lit(<<"a">>)>>,
             <<Lit(<<"a", " ">>), VerbV>>,
             <<VerbW>>,
             <<Lit(<<"a", ":", " ">>), VerbW>>,
             <<VerbW, VerbW>>,
             <<VerbW, Lit(<<" ", "&", " ">>), VerbW>> }

\* the formats of Messagef: those without %w
MessageFormats == {f \in Formats : \A i \in 1..Len(f) : f[i].k # "w"}

\* the formats of the chains: those, and one with three %w verbs
ChainFormats ==
    Formats \cup {<<VerbW, Lit(<<":", " ">>), VerbW, Lit(<<":", " ">>), VerbW>>}

\* the detail texts of the caller's error type: none, one line, a line with
\* its newline, two lines, a newline alone
Details == {<<>>, <<"d">>, <<"d", NL>>, <<"d", NL, "e">>, <<NL>>}

\* the keys of WithValue
Keys == {<<"k">>, <<"l">>}

\* the values panic is called with
PanicVals == {NilVal, StrVal(<<"a">>), IntVal(42)} \cup {ErrVal(e) : e \in pool}

\* the frames above the function that defers Recover when the panic is raised
\* d calls below it: by a call of panic, or by a nil dereference, which the
\* runtime turns into a panic in panicmem, called by sigpanic
Raised(kind, d) ==
    (IF kind = "runtime" THEN <<"panicmem", "sigpanic">> ELSE <<>>)
        \o [i \in 1..d |-> "h"]

\* the call stack of the caller: the calling function fn above d frames of main
Site(fn, d) == <<fn>> \o [i \in 1..d |-> "main"]

\* a shallow stack
Shallow == Site("f", MaxBelow)

\* a stack that exceeds stackTraceDepth
Deep == Site("g", stackTraceDepth + MaxBelow - 1)

(***************************************************************************)
(* The state machine.  The caller calls one function at a time (last is    *)
(* the call and its result) and then keeps or drops the error it was       *)
(* returned.  The actions take the sets their arguments are drawn from.    *)
(***************************************************************************)
Call(op, vals, err, errs, format, stk, skip, ret) ==
    [op |-> op, vals |-> vals, err |-> err, errs |-> errs, format |-> format,
     stk |-> stk, skip |-> skip, ret |-> ret]

Idle == Call("idle", <<>>, Nil, <<>>, <<>>, <<>>, 0, Nil)

\* no function that deferred Recover is running
NoRun == [pc |-> "none", stk |-> <<>>, panic |-> NilVal, raised |-> <<>>, fn |-> 0]

\* the caller's sentinel errors, made by Message when the program starts
Sentinels == <<messageError(<<"a">>), messageError(<<"b">>)>>

Init ==
    /\ heap = Sentinels
    /\ arrays = <<>>
    /\ pool = {Ptr(a) : a \in 1..Len(Sentinels)}
    /\ last = Idle
    /\ calls = 0
    /\ out = <<>>
    /\ run = NoRun

\* the caller is between two calls and has calls left
Begin ==
    /\ last = Idle
    /\ run = NoRun
    /\ calls < MaxCalls
    /\ calls' = calls + 1

\* the same for a call that renders nothing and defers nothing
Ready ==
    /\ Begin
    /\ UNCHANGED <<out, run>>

\* a call that allocates nodes returns with the new heap
Returns(r, call) ==
    /\ heap' = r.heap
    /\ last' = call
    /\ UNCHANGED <<arrays, pool>>

CallMessage(texts) ==
    /\ Ready
    /\ \E msg \in texts :
          LET r == Message(heap, msg) IN
          Returns(r, Call("Message", <<StrVal(msg)>>, Nil, <<>>, <<>>, <<>>, 0, r.ret))

CallMessagef(formats) ==
    /\ Ready
    /\ \E format \in formats :
          \E args \in [1..NumVerbs(format) -> FmtVals] :
             LET r == Messagef(heap, format, args) IN
             Returns(r, Call("Messagef", args, Nil, <<>>, format, <<>>, 0, r.ret))

CallJoin(valseqs) ==
    /\ Ready
    /\ \E vals \in valseqs :
          LET r == Join(heap, vals) IN
          Returns(r, Call("Join", vals, Nil, <<>>, <<>>, <<>>, 0, r.ret))

CallNew(valseqs, sites) ==
    /\ Ready
    /\ \E vals \in valseqs, stk \in sites :
          LET r == New(heap, vals, stk) IN
          Returns(r, Call("New", vals, Nil, <<>>, <<>>, stk, 0, r.ret))

CallJoinf(formats) ==
    /\ Ready
    /\ \E format \in formats :
          \E args \in [1..NumVerbs(format) -> FmtVals] :
             LET r == Joinf(heap, format, args) IN
             Returns(r, Call("Joinf", args, Nil, <<>>, format, <<>>, 0, r.ret))

CallNewf(formats, sites) ==
    /\ Ready
    /\ \E format \in formats, stk \in sites :
          \E args \in [1..NumVerbs(format) -> FmtVals] :
             LET r == Newf(heap, format, args, stk) IN
             Returns(r, Call("Newf", args, Nil, <<>>, format, stk, 0, r.ret))

CallWithStackTrace(skips, sites) ==
    /\ Ready
    /\ \E err \in Errs, skip \in skips, stk \in sites :
          LET r == WithStackTrace(heap, err, skip, stk) IN
          Returns(r, Call("WithStackTrace", <<>>, err, <<>>, <<>>, stk, skip, r.ret))

CallWithValue(keys, values) ==
    /\ Ready
    /\ \E err \in Errs, key \in keys, val \in values :
          LET r == WithValue(heap, err, key, val) IN
          Returns(r, Call("WithValue", <<StrVal(key), val>>, err, <<>>, <<>>, <<>>, 0, r.ret))

CallAppend(errseqs) ==
    /\ Ready
    /\ \E err \in Errs, errs \in errseqs :
          LET r == xerrors_Append(arrays, err, errs) IN
          /\ arrays' = r.arrays
          /\ last' = Call("Append", <<>>, err, errs, <<>>, <<>>, 0, r.ret)
          /\ UNCHANGED <<heap, pool>>

\* the caller appends to the same error twice and keeps both results:
\* p := Append(err, xs...); q := Append(err, ys...), where p may be among ys
CallAppendTwice(errseqs) ==
    /\ Ready
    /\ \E err \in Errs, xs \in errseqs :
          LET p == xerrors_Append(arrays, err, xs) IN
          \E ys \in errseqs \cup {<<p.ret>>} :
          LET q == xerrors_Append(p.arrays, err, ys)
          IN /\ arrays' = q.arrays
             /\ last' = Call("AppendTwice", <<>>, err, ys, <<>>, <<>>, 0, q.ret)
                           @@ [p |-> p.ret, pErrs |-> ChildrenIn(p.arrays, p.ret)]
             /\ pool' = IF p.ret = Nil THEN pool ELSE pool \cup {p.ret}
             /\ UNCHANGED heap

\* the caller makes an error of its own type, with details, around an error
CallDetailed(texts, details) ==
    /\ Ready
    /\ \E msg \in texts, d \in details, wrapped \in Errs :
          LET r == Alloc(heap, detailedErr(msg, d, wrapped)) IN
          Returns(r, Call("detailedErr", <<StrVal(msg), StrVal(d)>>, wrapped, <<>>, <<>>,
                          <<>>, 0, r.ret))

\* the caller makes a testErr around an error
CallTestErr(texts, details) ==
    /\ Ready
    /\ \E msg \in texts, d \in details, wrapped \in Errs :
          LET r == AllocValue(heap, testErr(msg, d, wrapped)) IN
          Returns(r, Call("testErr", <<StrVal(msg), StrVal(d)>>, wrapped, <<>>, <<>>,
                          <<>>, 0, r.ret))

\* the caller makes a testErr around the list of the errors it collected:
\* testErr{msg, d, Append(nil, errs...)}, around nil when there was none
CallTestErrOfAppend(texts, details, errseqs) ==
    /\ Ready
    /\ \E msg \in texts, d \in details, errs \in errseqs :
          LET m == xerrors_Append(arrays, Nil, errs)
              r == AllocValue(heap, testErr(msg, d, m.ret))
          IN /\ arrays' = m.arrays
             /\ heap' = r.heap
             /\ last' = Call("testErr", <<StrVal(msg), StrVal(d)>>, m.ret, errs, <<>>,
                              <<>>, 0, r.ret)
             /\ UNCHANGED pool

\* the caller renders an error it holds; this makes no error
CallSprint ==
    /\ last = Idle
    /\ run = NoRun
    /\ \E err \in pool :
          IF Panicked(writeErr(err))
          THEN /\ out' = <<>>
               /\ last' = Call("panic", <<>>, err, <<>>, <<>>, <<>>, 0, Nil)
          ELSE \/ /\ out' = Sprint(err)
                  /\ last' = Call("Sprint", <<>>, err, <<>>, <<>>, <<>>, 0, Nil)
               \/ /\ out' = Fprint(err)
                  /\ last' = Call("Fprint", <<>>, err, <<>>, <<>>, <<>>, 0, Nil)
               \/ /\ out' = xerrors_Print(err)
                  /\ last' = Call("Print", <<>>, err, <<>>, <<>>, <<>>, 0, Nil)
    /\ UNCHANGED <<heap, arrays, pool, calls, run>>

\* the caller renders an error it holds to a writer of its own
CallFprint(writers) ==
    /\ last = Idle
    /\ run = NoRun
    /\ \E err \in pool, w \in writers :
          IF Panicked(writeErr(err))
          THEN /\ out' = <<>>
               /\ last' = Call("panic", <<w>>, err, <<>>, <<>>, <<>>, 0, Nil)
          ELSE /\ out' = Fprint(err)
               /\ last' = Call("Fprint", <<w>>, err, <<>>, <<>>, <<>>, 0, Nil)
                             @@ [results |-> Fprint_Results(w, err)]
    /\ UNCHANGED <<heap, arrays, pool, calls, run>>

\* the caller renders an error it holds with Print, errWriter being w
CallPrint(writers) ==
    /\ last = Idle
    /\ run = NoRun
    /\ \E err \in pool, w \in writers :
          IF Panicked(writeErr(err))
          THEN /\ out' = <<>>
               /\ last' = Call("panic", <<w>>, err, <<>>, <<>>, <<>>, 0, Nil)
          ELSE LET r == Print_Outcome(w, err)
               IN /\ out' = r.handed
                  /\ last' = Call("Print", <<w>>, err, <<>>, <<>>, <<>>, 0, Nil)
                                @@ [results |-> r.results, panic |-> r.panic]
    /\ UNCHANGED <<heap, arrays, pool, calls, run>>

\* the caller takes the stack trace of an error it holds and asks for its
\* frames
CallFrames ==
    /\ last = Idle
    /\ run = NoRun
    /\ \E err \in pool :
          LET c == StackTrace(err)
              r == Callers_Frames(c)
          IN IF r.panic
             THEN last' = Call("panic", <<>>, err, <<>>, <<>>, c, 0, Nil)
             ELSE last' = Call("Frames", <<>>, err, <<>>, <<>>, c, 0, Nil)
                             @@ [frames |-> r.frames]
    /\ UNCHANGED <<heap, arrays, pool, calls, out, run>>

\* the caller takes the stack trace of an error it holds and prints it
CallString ==
    /\ last = Idle
    /\ run = NoRun
    /\ \E err \in pool :
          LET c == StackTrace(err)
              text == Callers_String(c)
          IN IF Panicked(text)
             THEN /\ out' = <<>>
                  /\ last' = Call("panic", <<>>, err, <<>>, <<>>, c, 0, Nil)
             ELSE /\ out' = text
                  /\ last' = Call("String", <<>>, err, <<>>, <<>>, c, 0, Nil)
    /\ UNCHANGED <<heap, arrays, pool, calls, run>>

\* the caller collects errors one by one, starting with no error
CallAccumulate(errseqs) ==
    /\ Ready
    /\ \E errs \in errseqs :
          LET r == Accumulate(arrays, Nil, errs, 1) IN
          /\ arrays' = r.arrays
          /\ last' = Call("Accumulate", <<>>, Nil, errs, <<>>, <<>>, 0, r.ret)
          /\ UNCHANGED <<heap, pool>>

\* the caller unwraps an error it holds
CallUnwrap ==
    /\ Ready
    /\ \E err \in pool :
          /\ HasUnwrap(err)
          /\ last' = Call("Unwrap", <<>>, err, <<>>, <<>>, <<>>, 0, Unwrap(err))
          /\ UNCHANGED <<heap, arrays, pool>>

\* a function of the caller runs defer Recover(fn) and goes on with its body
Enter(sites) ==
    /\ Begin
    /\ \E stk \in sites :
          run' = [pc |-> "body", stk |-> stk, panic |-> NilVal, raised |-> <<>>, fn |-> 0]
    /\ UNCHANGED <<heap, arrays, pool, last, out>>

\* the body panics, d calls below the function
Raise(depths) ==
    /\ run.pc = "body"
    /\ \E d \in depths :
          \/ \E v \in PanicVals :
                run' = [run EXCEPT !.pc = "panicking", !.panic = v,
                                   !.raised = Raised("panic", d)]
          \/ run' = [run EXCEPT !.pc = "panicking", !.panic = RuntimeError,
                                !.raised = Raised("runtime", d)]
    /\ UNCHANGED <<heap, arrays, pool, last, calls, out>>

\* the body returns
Return ==
    /\ run.pc = "body"
    /\ run' = [run EXCEPT !.pc = "returning"]
    /\ UNCHANGED <<heap, arrays, pool, last, calls, out>>

\* the deferred call of Recover(fn) runs; fn keeps the error it is passed
RunDeferred ==
    /\ run.pc \in {"panicking", "returning"}
    /\ \E rec \in recover(run) :
          LET r == Recover(heap, rec, DeferStack(run)) IN
          /\ heap' = r.heap
          /\ run' = [run EXCEPT !.pc = IF run.pc = "panicking" THEN "recovered"
                                       ELSE "returned",
                                !.fn = IF r.called THEN run.fn + 1 ELSE run.fn]
          /\ last' = Call("Recover", <<rec>>, Nil, <<>>, <<>>, run.stk, 0, r.ret)
    /\ UNCHANGED <<arrays, pool, calls, out>>

\* the deferred closure `func() { err = FromRecover(recover()) }` runs, or
\* one that passes recover() to a helper that calls FromRecover
RunDeferredClosure(helpers) ==
    /\ run.pc \in {"panicking", "returning"}
    /\ \E rec \in recover(run), hs \in helpers :
          LET r == FromRecover(heap, rec, hs \o <<"func1">> \o DeferStack(run)) IN
          /\ heap' = r.heap
          /\ run' = [run EXCEPT !.pc = IF run.pc = "panicking" THEN "recovered"
                                       ELSE "returned"]
          /\ last' = Call("FromRecover", <<rec>>, Nil, <<>>, <<>>,
                          hs \o <<"func1">> \o DeferStack(run), 0, r.ret)
    /\ UNCHANGED <<arrays, pool, calls, out>>

\* the function is left; the caller keeps the error fn was passed
Leave ==
    /\ run.pc \in {"recovered", "returned"}
    /\ pool' = IF last.ret = Nil THEN pool ELSE pool \cup {last.ret}
    /\ last' = Idle
    /\ run' = NoRun
    /\ UNCHANGED <<heap, arrays, calls, out>>

\* the caller keeps the error it was returned and goes on
Keep ==
    /\ last # Idle
    /\ pool' = IF last.ret = Nil THEN pool ELSE pool \cup {last.ret}
    /\ last' = Idle
    /\ UNCHANGED <<heap, arrays, calls, out, run>>

\* chains: Message, Join, New and Unwrap, with multi-errors among the arguments
NextJoin ==
    \/ CallMessage({<<"c">>})
    \/ CallJoin(SeqsUpTo(Vals, MaxVals))
    \/ CallNew(SeqsUpTo(FewVals, MaxVals - 1), {Shallow})
    \/ CallAppend(SeqsUpTo(Errs, MaxVals - 1))
    \/ CallTestErrOfAppend({<<"x">>}, {<<"d">>}, SeqsUpTo(pool, MaxVals - 1))
    \/ CallUnwrap
    \/ Keep

SpecJoin == Init /\ [][NextJoin]_vars

\* stack traces: the builders that capture the stack, at several call sites
NextStack ==
    \/ CallMessage(Texts)
    \/ CallNew(SeqsUpTo(FewVals, MaxVals - 1), {Shallow, Deep})
    \/ CallNewf(Formats, {Shallow, Deep})
    \/ CallWithStackTrace(0..MaxBelow + 1, {Shallow, Deep})
    \/ Keep

SpecStack == Init /\ [][NextStack]_vars

\* multi-errors: Message, Append and the accumulation of errors with Append
NextMulti ==
    \/ CallMessage(Texts)
    \/ CallAppend(SeqsUpTo(Errs, MaxVals))
    \/ CallAccumulate(SeqsUpTo(Errs, MaxVals))
    \/ CallTestErrOfAppend({<<"x">>}, {<<"d">>}, SeqsUpTo(pool, MaxVals - 1))
    \/ Keep

SpecMulti == Init /\ [][NextMulti]_vars

\* rendering: errors with and without details, chains and lists, rendered
NextRender ==
    \/ CallMessage({<<"c">>})
    \/ CallJoin(SeqsUpTo(FewVals, MaxVals - 1))
    \/ CallNew(SeqsUpTo(FewVals, MaxVals - 1), {Shallow})
    \/ CallWithStackTrace({0, MaxBelow + 1}, {Shallow})
    \/ CallAppend(SeqsUpTo(Errs, MaxVals - 1))
    \/ CallDetailed({<<"x">>}, Details)
    \/ CallTestErr({<<"x">>}, {<<"d">>})
    \/ CallSprint
    \/ Keep

SpecRender == Init /\ [][NextRender]_vars

\* formatted chains: Joinf and Newf over messages, chains and multi-errors
NextJoinf ==
    \/ CallMessage({<<>>})
    \/ CallJoin(SeqsUpTo(FewVals, MaxVals - 1))
    \/ CallAppend(SeqsUpTo(Errs, MaxVals - 1))
    \/ CallJoinf(ChainFormats)
    \/ CallNewf(Formats, {Shallow})
    \/ CallTestErrOfAppend({<<"x">>}, {<<"d">>}, SeqsUpTo(pool, MaxVals - 1))
    \/ Keep

SpecJoinf == Init /\ [][NextJoinf]_vars

\* messages: Message and Messagef, called again with the same text
NextMessage ==
    \/ CallMessage(Texts)
    \/ CallMessagef(MessageFormats)
    \/ CallJoin(SeqsUpTo(FewVals, MaxVals - 1))
    \/ Keep

SpecMessage == Init /\ [][NextMessage]_vars

\* frames: the stack traces of errors with and without a stack, taken apart
\* and printed
NextFrames ==
    \/ CallMessage({<<"c">>})
    \/ CallNew(SeqsUpTo(FewVals, 1), {Shallow, Deep})
    \/ CallWithStackTrace({0, MaxBelow + 1}, {Shallow})
    \/ CallFrames
    \/ CallString
    \/ Keep

SpecFrames == Init /\ [][NextFrames]_vars

\* shared lists: Append called twice with the same first argument
NextShared ==
    \/ CallMessage({<<"c">>})
    \/ CallAppend(SeqsUpTo(pool, MaxVals - 1))
    \/ CallAppendTwice(SeqsUpTo(pool, 1))
    \/ Keep

SpecShared == Init /\ [][NextShared]_vars

\* the writers: one that takes everything, one with room for MaxRoom bytes and
\* a closed one
MaxRoom == 8

Writers == {Writer(-1, FALSE), Writer(MaxRoom, FALSE), Writer(0, TRUE)}

\* writing: chains rendered to writers that take all, a part or nothing
NextWrite ==
    \/ CallMessage(Texts)
    \/ CallJoin(SeqsUpTo(FewVals, MaxVals - 1))
    \/ CallFprint(Writers)
    \/ CallPrint(Writers)
    \/ Keep

SpecWrite == Init /\ [][NextWrite]_vars

\* values: errors annotated by WithValue, alone, in chains and in lists
NextValue ==
    \/ CallNew(SeqsUpTo(FewVals, MaxVals - 1), {Shallow})
    \/ CallJoin(SeqsUpTo(FewVals, MaxVals - 1))
    \/ CallAppend(SeqsUpTo(Errs, MaxVals - 1))
    \/ CallWithValue(Keys, {IntVal(1), IntVal(2), NilVal})
    \/ Keep

SpecValue == Init /\ [][NextValue]_vars

\* panics: functions that defer Recover and return or panic
NextPanic ==
    \/ Enter({Shallow, Site("g", 0)})
    \/ Raise(0..MaxBelow)
    \/ Return
    \/ RunDeferred
    \/ Leave

SpecPanic == Init /\ [][NextPanic]_vars

\* panics recovered by a deferred closure that calls FromRecover
NextFromRecover ==
    \/ Enter({Shallow, Site("g", 0)})
    \/ Raise(0..MaxBelow)
    \/ Return
    \/ RunDeferredClosure({<<>>, <<"handle">>})
    \/ Leave

SpecFromRecover == Init /\ [][NextFromRecover]_vars


(***************************************************************************)
(* Claims about chains: Join, New and Unwrap (SpecJoin).                   *)
(***************************************************************************)
\* the values of an argument list that are not nil
NonNil(vals) == SelectSeq(vals, LAMBDA v : v.k # "nil")

\* the message the conversion rules give a non-nil value
ValText(val) ==
    CASE val.k = "error" -> Error(val.e)
      [] val.k = "string" -> val.s
      [] val.k = "Stringer" -> val.s
      [] OTHER -> Itoa(val.n)

RECURSIVE ColonJoined(_)
\* the messages of a list of values, joined by ": "
ColonJoined(vals) ==
    IF Len(vals) = 0 THEN <<>>
    ELSE IF Len(vals) = 1 THEN ValText(vals[1])
    ELSE ValText(vals[1]) \o <<":", " ">> \o ColonJoined(Tail(vals))

\* the last call was Join or New
ChainCall == last.op \in {"Join", "New"}

\* C1: the message of Join(vals...) and of New(vals...) is the messages of the
\* non-nil values, converted by the conversion rules, in argument order and
\* joined by ": "; nil values leave no trace
C1_Message ==
    ChainCall /\ NonNil(last.vals) # <<>>
        => Error(last.ret) = ColonJoined(NonNil(last.vals))

\* C1 witness: Join(ErrA, nil, 42) returned an error whose message is "a: 42"
C1_Witness ==
    /\ last.op = "Join"
    /\ last.vals = <<ErrVal(Ptr(1)), NilVal, IntVal(42)>>
    /\ Error(last.ret) = <<"a", ":", " ", "4", "2">>

\* C2: Join and New return nil exactly when every value is nil (or there is none)
C2_NilIffAllNil ==
    ChainCall => (last.ret = Nil <=> NonNil(last.vals) = <<>>)

\* C2 witness: New(nil, nil) returned nil
C2_Witness ==
    /\ last.op = "New"
    /\ last.vals = <<NilVal, NilVal>>
    /\ last.ret = Nil

\* the errors among the arguments of the last call
ErrorArgs == {last.vals[i].e : i \in {j \in 1..Len(last.vals) : last.vals[j].k = "error"}}

\* C3 as stated: errors.Is(result, v) is true for every error v among the
\* arguments of Join or New
C3_Original ==
    ChainCall => \A v \in ErrorArgs : Matches(last.ret, v)

\* C3 as amended: errors.Is(result, v) is true for every error v among the
\* arguments of Join or New that can be compared with ==, also for those on the
\* wrapper side; it is false for an argument that is a multi-error, and it
\* panics for an argument that is a struct value holding a multi-error
C3_IsEveryComparableArg ==
    ChainCall =>
        \A v \in ErrorArgs :
           /\ CanCompare(v) => Matches(last.ret, v)
           /\ v.t = "multi" => NoMatch(last.ret, v)
           /\ ~CanCompare(v) /\ v.t # "multi" => IsPanics(last.ret, v)

\* C3 witness: Join(ErrA, ErrB) matches ErrA, which Unwrap does not reach
C3_Witness ==
    /\ last.op = "Join"
    /\ last.vals = <<ErrVal(Ptr(1)), ErrVal(Ptr(2))>>
    /\ Matches(last.ret, Ptr(1))
    /\ Unwrap(last.ret) = Ptr(2)

\* the positions of the non-nil values of the last call
NonNilAt == {i \in 1..Len(last.vals) : last.vals[i].k # "nil"}

\* the position of the first non-nil value
FirstAt == CHOOSE i \in NonNilAt : \A j \in NonNilAt : i <= j

\* the errors among the values after the first non-nil one
LaterErrors == {last.vals[i].e : i \in {j \in NonNilAt : j > FirstAt /\ last.vals[j].k = "error"}}

\* the first non-nil value is an error that no later argument matches
FirstIsApart ==
    /\ last.vals[FirstAt].k = "error"
    /\ \A v \in LaterErrors : NoMatch(v, last.vals[FirstAt].e)

\* the last call was Join with two non-nil values or more
JoinedSeveral == last.op = "Join" /\ Cardinality(NonNilAt) >= 2

\* C4 as stated: Unwrap() on Join(v1, ..., vn) is one error, the chain of the
\* later values: it matches every later error argument and not the first
C4_Original ==
    JoinedSeveral =>
        /\ HasUnwrap(last.ret)
        /\ Unwrap(last.ret) # Nil
        /\ \A v \in LaterErrors : Matches(Unwrap(last.ret), v)
        /\ FirstIsApart => NoMatch(Unwrap(last.ret), last.vals[FirstAt].e)

\* C4 as amended: Unwrap() on Join(v1, ..., vn) is one error, the chain of the
\* later values: errors.Is of it is true for every later error argument that
\* can be compared with ==, false for a later multi-error, a panic for a later
\* struct value holding a multi-error, and false for the first error when
\* errors.Is(v, v1) is false for every later error argument v
C4_UnwrapIsRest ==
    JoinedSeveral =>
        /\ HasUnwrap(last.ret)
        /\ Unwrap(last.ret) # Nil
        /\ \A v \in LaterErrors :
              /\ CanCompare(v) => Matches(Unwrap(last.ret), v)
              /\ v.t = "multi" => NoMatch(Unwrap(last.ret), v)
              /\ ~CanCompare(v) /\ v.t # "multi" => IsPanics(Unwrap(last.ret), v)
        /\ FirstIsApart => NoMatch(Unwrap(last.ret), last.vals[FirstAt].e)

\* C4 witness: Join(ErrA, "a", ErrB) unwraps to a chain that matches ErrB, not ErrA
C4_Witness ==
    /\ last.op = "Join"
    /\ last.vals = <<ErrVal(Ptr(1)), StrVal(<<"a">>), ErrVal(Ptr(2))>>
    /\ heap[Unwrap(last.ret).a].kind = "withWrapper"
    /\ Matches(Unwrap(last.ret), Ptr(2))
    /\ NoMatch(Unwrap(last.ret), Ptr(1))

(***************************************************************************)
(* Claims about stack traces: Message, New, Newf and WithStackTrace        *)
(* (SpecStack).                                                            *)
(***************************************************************************)
RECURSIVE AllStacks(_)
\* the stacks of the stack-carrying nodes met while walking Unwrap from err,
\* the outermost first
AllStacks(err) ==
    IF err = Nil THEN <<>>
    ELSE (IF HasStackTrace(err) THEN <<heap[err.a].stack>> ELSE <<>>)
         \o (IF HasUnwrap(err) THEN AllStacks(Unwrap(err)) ELSE <<>>)

\* the error the result of the last call wraps carries a stack of its own
\* somewhere on its Unwrap chain
WrapsStacked == AllStacks(Unwrap(last.ret)) # <<>>

\* the last call was New or Newf and returned an error
StackedCall == last.op \in {"New", "Newf"} /\ last.ret # Nil

\* the stack trace of the last result starts at the function that made the call
StartsAtCaller ==
    /\ StackTrace(last.ret) # <<>>
    /\ StackTrace(last.ret)[1] = last.stk[1]

\* C5 as stated: StackTrace(Message(x)) is empty; StackTrace of every non-nil
\* result of New and of every result of Newf is non-empty and its first frame
\* is the function that called New or Newf
C5_Original ==
    /\ last.op = "Message" => StackTrace(last.ret) = <<>>
    /\ StackedCall => StartsAtCaller

\* C5 as amended: StackTrace(Message(x)) is empty; StackTrace of a result of
\* New or Newf that wraps no error already carrying a stack on its Unwrap
\* chain is the stack of the call, cut at stackTraceDepth frames: it is
\* non-empty and its first frame is the function that called New or Newf
C5_FirstFrameIsCaller ==
    /\ last.op = "Message" => StackTrace(last.ret) = <<>>
    /\ StackedCall /\ ~WrapsStacked =>
          /\ StartsAtCaller
          /\ StackTrace(last.ret) = Take(last.stk, stackTraceDepth)

\* C5 witness: Newf called by g on a stack deeper than stackTraceDepth returned
\* an error whose trace starts at g and holds stackTraceDepth frames
C5_Witness ==
    /\ last.op = "Newf"
    /\ last.stk = Deep
    /\ ~WrapsStacked
    /\ StackTrace(last.ret)[1] = "g"
    /\ Len(StackTrace(last.ret)) = stackTraceDepth

\* the last call wrapped an error that carries a stack in a new stack node
Rewrapped ==
    /\ last.op \in {"New", "WithStackTrace"}
    /\ last.ret # Nil
    /\ WrapsStacked

\* C6 as stated: StackTrace(err) is the stack of the first stack-carrying node
\* met while walking Unwrap from err; when an error that carries a stack is
\* wrapped again by New or WithStackTrace, StackTrace of the result is the
\* stack captured by the outer wrap
C6_Original ==
    /\ \A e \in pool \cup {last.ret} :
          AllStacks(e) # <<>> => StackTrace(e) = AllStacks(e)[1]
    /\ Rewrapped => StackTrace(last.ret) = heap[last.ret.a].stack

\* C6 as amended: StackTrace(err) is the stack of the last stack-carrying node
\* met while walking Unwrap from err (the innermost one), and empty when there
\* is none; when an error that carries a stack is wrapped again by New or
\* WithStackTrace, StackTrace of the result is the stack the wrapped error
\* had, not the one captured by the outer wrap
C6_LastStackWins ==
    /\ \A e \in pool \cup {last.ret} :
          StackTrace(e) = IF AllStacks(e) = <<>> THEN <<>>
                          ELSE AllStacks(e)[Len(AllStacks(e))]
    /\ Rewrapped => StackTrace(last.ret) = StackTrace(Unwrap(last.ret))

\* C6 witness: WithStackTrace wrapped an error made by New at another call
\* site; the trace of the result is the one New captured
C6_Witness ==
    /\ last.op = "WithStackTrace"
    /\ last.ret # Nil
    /\ HasStackTrace(last.err)
    /\ heap[last.ret.a].stack # heap[last.err.a].stack
    /\ StackTrace(last.ret) = heap[last.err.a].stack

(***************************************************************************)
(* Claims about multi-errors: Append (SpecMulti).                          *)
(***************************************************************************)
\* the errors of a list that are not nil
NonNilErrs(errs) == SelectSeq(errs, LAMBDA e : e # Nil)

\* the errors the last call of Append was left with: err and errs without nil
Remaining == NonNilErrs(<<last.err>> \o last.errs)

\* C7: Append(err, errs...) returns nil when no non-nil error remains, the very
\* error when exactly one remains, and a multi-error only when two or more do
C7_Collapse ==
    last.op = "Append" =>
        /\ Len(Remaining) = 0 => last.ret = Nil
        /\ Len(Remaining) = 1 => last.ret = Remaining[1]
        /\ Len(Remaining) >= 2 => last.ret.t = "multi" /\ last.ret.n >= 2

\* C7 witness: Append(nil, nil, ErrA) returned ErrA itself, with the message "a"
C7_Witness ==
    /\ last.op = "Append"
    /\ last.err = Nil
    /\ last.errs = <<Nil, Ptr(1)>>
    /\ last.ret = Ptr(1)
    /\ Error(last.ret) = <<"a">>

\* Append to a multi-error extended its children by the non-nil errors
Flattened ==
    (last.op = "Append" /\ last.err.t = "multi") =>
        /\ last.ret.t = "multi"
        /\ Children(last.ret) = Children(last.err) \o NonNilErrs(last.errs)

\* one call of Append(nil, e1, ..., en) with the errors of the last call
OneShot == xerrors_Append(arrays, Nil, last.errs)

\* the accumulation left the child sequence that one call of Append leaves
AccumulatedAsOneShot ==
    ChildrenIn(arrays, last.ret) = ChildrenIn(OneShot.arrays, OneShot.ret)

\* the first non-nil error is a multi-error and another non-nil error follows
MultiThenMore(errs) ==
    /\ Len(NonNilErrs(errs)) >= 2
    /\ NonNilErrs(errs)[1].t = "multi"

\* C8 as stated: Append(err, e1..em) on a multi-error err has the children of
\* err followed by the non-nil e's, and accumulating with err = Append(err, e)
\* leaves the child sequence of one Append(nil, e1, ..., en)
C8_Original ==
    /\ Flattened
    /\ last.op = "Accumulate" => AccumulatedAsOneShot

\* C8 as amended: Append(err, e1..em) on a multi-error err has the children of
\* err followed by the non-nil e's, and accumulating with err = Append(err, e)
\* leaves the child sequence of one Append(nil, e1, ..., en) unless the first
\* non-nil e is a multi-error that another non-nil e follows; then the two
\* differ
C8_FlattensInOrder ==
    /\ Flattened
    /\ last.op = "Accumulate" => (AccumulatedAsOneShot <=> ~MultiThenMore(last.errs))

\* C8 witness: accumulating ErrA, ErrB, ErrA left a multi-error with exactly
\* these three children, the last appended to the multi-error of the first two
C8_Witness ==
    /\ last.op = "Accumulate"
    /\ last.errs = <<Ptr(1), Ptr(2), Ptr(1)>>
    /\ last.ret.t = "multi"
    /\ Children(last.ret) = <<Ptr(1), Ptr(2), Ptr(1)>>

\* "the following errors occurred: "
Prefix ==
    <<"t", "h", "e", " ", "f", "o", "l", "l", "o", "w", "i", "n", "g", " ",
      "e", "r", "r", "o", "r", "s", " ", "o", "c", "c", "u", "r", "r", "e", "d", ":", " ">>

RECURSIVE CommaJoined(_)
\* the messages of a list of errors, joined by ", "
CommaJoined(errs) ==
    IF Len(errs) = 0 THEN <<>>
    ELSE IF Len(errs) = 1 THEN Error(errs[1])
    ELSE Error(errs[1]) \o <<",", " ">> \o CommaJoined(Tail(errs))

\* C9 as stated: the message of a multi-error is "the following errors
\* occurred: [" followed by the messages of its children in order, joined by
\* ", ", and "]"
C9_Original ==
    \A e \in pool \cup {last.ret} :
        e.t = "multi" =>
            Error(e) = Prefix \o <<"[">> \o CommaJoined(Children(e)) \o <<"]">>

RECURSIVE Contained(_)
\* the errors a match may find in err: err, its children, its wrapper and
\* its next error, and theirs
Contained(err) ==
    IF err = Nil THEN {}
    ELSE {err} \cup
         (IF err.t = "multi"
          THEN UNION {Contained(Children(err)[i]) : i \in 1..err.n}
          ELSE Contained(heap[err.a].wrapper) \cup Contained(heap[err.a].err))

\* the last call of Append returned a multi-error
AppendedMulti == last.op = "Append" /\ last.ret.t = "multi"

\* the errors the last call appended one by one
AppendedErrs ==
    {e \in {last.errs[i] : i \in 1..Len(last.errs)} \cup {last.err} :
        e # Nil /\ (e = last.err => e.t # "multi")}

\* errors.Is of the last result matches t exactly when it does for some child
IsByChildren ==
    \A t \in pool \cup {last.ret} :
        Matches(last.ret, t)
            <=> \E i \in 1..last.ret.n : Matches(Children(last.ret)[i], t)

\* C10 as stated: errors.Is(m, t) is true exactly when it is for some child,
\* true for every appended error and false for an error never appended;
\* errors.As(m, target) succeeds exactly when it does on some child
C10_Original ==
    AppendedMulti =>
        /\ IsByChildren
        /\ \A e \in AppendedErrs : Matches(last.ret, e)
        /\ \A T \in Types :
              errors_As(last.ret, T)
                  <=> \E i \in 1..last.ret.n : errors_As(Children(last.ret)[i], T)

\* C10 as amended: errors.Is(m, t) is true exactly when it is for some child:
\* for an appended error it is true when the error can be compared with ==,
\* false when it is a multi-error and a panic when it is a struct value holding
\* a multi-error; for an error t that can be compared with == it is true when t
\* is in a child (the child, its wrapper, its next error or a child of it, at
\* any depth), appended or not, and false when t is in none; errors.As(m,
\* target) succeeds exactly when m itself is assignable to the target's type
\* or it succeeds on some child
C10_IsAsByChildren ==
    AppendedMulti =>
        /\ IsByChildren
        /\ \A e \in AppendedErrs :
              /\ CanCompare(e) => Matches(last.ret, e)
              /\ e.t = "multi" => NoMatch(last.ret, e)
              /\ ~CanCompare(e) /\ e.t # "multi" => IsPanics(last.ret, e)
        /\ \A t \in pool :
              CanCompare(t) =>
                  IF \E i \in 1..last.ret.n : t \in Contained(Children(last.ret)[i])
                  THEN Matches(last.ret, t)
                  ELSE NoMatch(last.ret, t)
        /\ \A T \in Types :
              errors_As(last.ret, T)
                  <=> \/ AssignableTo("multiError", T)
                      \/ \E i \in 1..last.ret.n : errors_As(Children(last.ret)[i], T)

\* C10 witness: Append(ErrA, ErrB) matches ErrA and ErrB and not a third error
\* whose message is that of ErrA; it is a messageError, not a withWrapper
C10_Witness ==
    /\ last.op = "Append"
    /\ last.err = Ptr(1)
    /\ last.errs = <<Ptr(2)>>
    /\ last.ret.t = "multi"
    /\ Ptr(3) \in pool
    /\ Error(Ptr(3)) = Error(Ptr(1))
    /\ Matches(last.ret, Ptr(1))
    /\ Matches(last.ret, Ptr(2))
    /\ NoMatch(last.ret, Ptr(3))
    /\ errors_As(last.ret, "messageError")
    /\ ~errors_As(last.ret, "withWrapper")

(***************************************************************************)
(* Claims about rendering: Sprint, Fprint and Print (SpecRender).          *)
(***************************************************************************)
\* the last call rendered an error
Rendered == last.op \in {"Sprint", "Fprint", "Print"} /\ last.err # Nil

\* C11: the text Sprint, Fprint and Print produce for a non-nil error ends
\* with a newline, whatever details the errors of its chain return
C11_EndsWithNewline ==
    Rendered => out # <<>> /\ out[Len(out)] = NL

\* C11 witness: an error whose details are "d", without a newline, was rendered
\* and the text ends with "d" and a newline
C11_Witness ==
    /\ Rendered
    /\ last.err.t = "ptr"
    /\ heap[last.err.a].kind = "detailedErr"
    /\ heap[last.err.a].details = <<"d">>
    /\ Len(out) >= 2
    /\ SubSeq(out, Len(out) - 1, Len(out)) = <<"d", NL>>

\* the places of a text where a line starts in the first column without a tab
HeadStarts(s) ==
    {p \in 1..Len(s) : (p = 1 \/ s[p - 1] = NL) /\ s[p] # TAB}

\* the line of a text that starts at place p, without its newline
LineAt(s, p) ==
    LET ends == {q \in p..Len(s) : s[q] = NL}
        end == IF ends = {} THEN Len(s) + 1 ELSE CHOOSE q \in ends : \A r \in ends : q <= r
    IN SubSeq(s, p, end - 1)

\* the lines of the rendered text that start in the first column: those that
\* open a block
Heads ==
    LET S == HeadStarts(out) IN
    [k \in 1..Cardinality(S) |->
        LineAt(out, CHOOSE p \in S : Cardinality({q \in S : q < p}) = k - 1)]

\* s begins with the text p
StartsWith(s, p) == Len(s) >= Len(p) /\ SubSeq(s, 1, Len(p)) = p

RECURSIVE Emitted(_, _)
\* the errors of the Unwrap chain of err that are rendered: the first, and
\* those that have details
Emitted(err, first) ==
    IF err = Nil THEN <<>>
    ELSE (IF first \/ DetailsOf(err) # <<>> THEN <<err>> ELSE <<>>)
         \o (IF HasUnwrap(err) THEN Emitted(Unwrap(err), FALSE) ELSE <<>>)

\* C12: the first error of the chain is introduced by "Error: ", every later
\* error that is rendered by "Previous error: ", in the order of the chain;
\* "Error: " opens the first block and no other
C12_Prefixes ==
    Rendered =>
        LET es == Emitted(last.err, TRUE) IN
        /\ Len(Heads) = Len(es)
        /\ Heads[1] = firstErrorPrefix \o Error(es[1])
        /\ \A i \in 2..Len(es) :
              /\ Heads[i] = previousErrorPrefix \o Error(es[i])
              /\ ~StartsWith(Heads[i], firstErrorPrefix)

\* C12 witness: an error with details around an error with a stack trace was
\* rendered in two blocks, "Error: " and then "Previous error: "
C12_Witness ==
    /\ Rendered
    /\ Len(Heads) = 2
    /\ StartsWith(Heads[1], firstErrorPrefix)
    /\ StartsWith(Heads[2], previousErrorPrefix)
    /\ last.err.t = "ptr"
    /\ heap[last.err.a].kind = "detailedErr"
    /\ HasStackTrace(Unwrap(last.err))

RECURSIVE Chain(_)
\* the errors of the Unwrap chain of err, err first
Chain(err) ==
    IF err = Nil THEN <<>>
    ELSE <<err>> \o (IF HasUnwrap(err) THEN Chain(Unwrap(err)) ELSE <<>>)

\* what the rendering writes from the error after err on
RestOf(err) == IF HasUnwrap(err) THEN writeErrLoop(Unwrap(err), FALSE) ELSE <<>>

\* C13: an error of the chain that is not the first and has no details adds
\* nothing to the text; the first is written as "Error: " + message + newline
\* when it has no details, and that line is the whole text when no error of
\* the chain has details
C13_NoDetailNoBlock ==
    Rendered =>
        LET c == Chain(last.err) IN
        /\ \A i \in 2..Len(c) :
              DetailsOf(c[i]) = <<>> => writeErrLoop(c[i], FALSE) = RestOf(c[i])
        /\ DetailsOf(last.err) = <<>> =>
              out = firstErrorPrefix \o Error(last.err) \o <<NL>> \o RestOf(last.err)
        /\ (\A i \in 1..Len(c) : DetailsOf(c[i]) = <<>>) =>
              out = firstErrorPrefix \o Error(last.err) \o <<NL>>

\* C13 witness: Join("a", ErrA), a chain of two errors without details, was
\* rendered as the single line "Error: a: a"
C13_Witness ==
    /\ Rendered
    /\ Len(Chain(last.err)) = 2
    /\ last.err.t = "ptr"
    /\ heap[last.err.a].kind = "withWrapper"
    /\ out = firstErrorPrefix \o <<"a", ":", " ", "a", NL>>

RECURSIVE StatedMessage(_), StatedItems(_, _)
\* the message of an error as the claims state it: that of a multi-error
\* begins with "the following errors occurred: "
StatedMessage(e) ==
    IF e.t = "multi"
    THEN Prefix \o <<"[">>
         \o (IF e.n = 0 THEN <<>> ELSE StatedItems(Children(e), 1)) \o <<"]">>
    ELSE Error(e)

\* the stated messages of a list of errors from the i-th on, joined by ", "
StatedItems(errs, i) ==
    StatedMessage(errs[i])
        \o (IF i < Len(errs) THEN <<",", " ">> \o StatedItems(errs, i + 1) ELSE <<>>)

RECURSIVE StatedDetails(_, _)
\* the details of a multi-error as C14 states them, from the n-th child on:
\* the children numbered in order, each with its full rendering, a nested
\* multi-error under its stated message and one tab deeper
StatedDetails(e, n) ==
    IF n > e.n THEN <<>>
    ELSE LET c == Children(e)[n] IN
         Itoa(n) \o <<".", " ">>
         \o (IF c.t = "multi" /\ c.n > 0
             THEN writeBlock(firstErrorPrefix, StatedMessage(c), StatedDetails(c, 1))
             ELSE writeErr(c))
         \o StatedDetails(e, n + 1)

\* C14 as stated: the details of a multi-error number its children in order
\* and embed the full rendering of each, a nested multi-error as "Error: the
\* following errors occurred: [b, c]" followed by its own numbered children
\* one tab deeper
C14_Original ==
    \A e \in pool \cup {last.ret} :
        e.t = "multi" => ErrorDetails(e) = StatedDetails(e, 1)

\* the places of a text where a line starts
LineStarts(s) == {p \in 1..Len(s) : p = 1 \/ s[p - 1] = NL}

\* the lines of a text that are not empty
TextLines(s) == {LineAt(s, p) : p \in LineStarts(s)} \ {<<>>}

\* the details of the first error on the Unwrap chain of w that has the detail
\* method; none when no error of that chain has it
FirstDetails(w) ==
    LET c == Chain(w)
        at == {i \in 1..Len(c) : IsDetailed(c[i])}
    IN IF at = {} THEN <<>>
       ELSE ErrorDetails(c[CHOOSE i \in at : \A j \in at : i <= j])

\* Join(w, e) was rendered, where the wrapper w carries details and no error
\* from e on does
WrapperWithDetails ==
    /\ Rendered
    /\ last.err.t = "ptr"
    /\ heap[last.err.a].kind = "withWrapper"
    /\ heap[last.err.a].wrapper # Nil
    /\ FirstDetails(heap[last.err.a].wrapper) # <<>>
    /\ \A i \in 2..Len(Chain(last.err)) : DetailsOf(Chain(last.err)[i]) = <<>>

\* C15 as stated: when the wrapper w of Join(w, e) carries a stack trace or
\* details and e carries none, no line of the details of w is in the text
C15_Original ==
    WrapperWithDetails =>
        \A l \in TextLines(FirstDetails(heap[last.err.a].wrapper)) :
            \A o \in TextLines(out) : o # l /\ o # <<TAB>> \o l

\* C15: the wrapper of a WrapperNode opens no block of its own, only the
\* errors of the Unwrap chain do; the details of the wrapper are written once,
\* as the details of the WrapperNode itself, under its "Error: " line
C15_WrapperDetailsInOwnBlock ==
    /\ Rendered => Len(Heads) = Len(Emitted(last.err, TRUE))
    /\ WrapperWithDetails =>
          LET d == FirstDetails(heap[last.err.a].wrapper) IN
          out = firstErrorPrefix \o Error(last.err) \o <<NL, TAB>> \o indent(d)
                \o (IF HasSuffixNL(d) THEN <<>> ELSE <<NL>>)

\* C15 witness: Join(w, ErrA), where w has a stack trace, was rendered: one
\* block, with the frames of w under "Error: "
C15_Witness ==
    /\ WrapperWithDetails
    /\ HasStackTrace(heap[last.err.a].wrapper)
    /\ Len(Heads) = 1
    /\ \E o \in TextLines(out) : StartsWith(o, <<TAB, TAB, "a", "t", " ">>)

(***************************************************************************)
(* Claims about the formatted builders.                                    *)
(***************************************************************************)
\* the last call was Joinf or Newf
FormattedCall == last.op \in {"Joinf", "Newf"}

\* the error Joinf built: the result of Joinf, the error inside that of Newf
Inner == IF last.op = "Newf" THEN Unwrap(last.ret) ELSE last.ret

\* the operands of the %w verbs of the last call, in order
Wrapped ==
    LET ws == wrappedErrs(last.format) IN [k \in 1..Len(ws) |-> last.vals[ws[k]]]

\* the last call had n %w verbs or more, every one of them wrapping an error
WrapsErrors(n) ==
    /\ FormattedCall
    /\ Len(Wrapped) >= n
    /\ \A k \in 1..Len(Wrapped) : Wrapped[k].k = "error"

\* C16 as stated: with exactly one %w wrapping e, Unwrap on the error Joinf
\* built returns e itself and errors.Is(result, e) is true
C16_Original ==
    WrapsErrors(1) /\ Len(Wrapped) = 1 =>
        /\ Inner.t = "ptr" /\ heap[Inner.a].kind = "withWrapper"
        /\ Unwrap(Inner) = Wrapped[1].e
        /\ Matches(Inner, Wrapped[1].e)

\* C16: with exactly one %w wrapping e, Unwrap on the error Joinf built
\* returns e itself, one error and not a list, and errors.Is(result, e) is
\* true when e can be compared with ==, false when e is a multi-error and a
\* panic when e is a struct value holding a multi-error
C16_UnwrapIsOperand ==
    WrapsErrors(1) /\ Len(Wrapped) = 1 =>
        LET e == Wrapped[1].e
        IN /\ Inner.t = "ptr" /\ heap[Inner.a].kind = "withWrapper"
           /\ Unwrap(Inner) = e
           /\ CanCompare(e) => Matches(Inner, e)
           /\ e.t = "multi" => NoMatch(Inner, e)
           /\ ~CanCompare(e) /\ e.t # "multi" => IsPanics(Inner, e)

\* C16 witness: Newf("a: %w", e) returned an error around a chain whose next
\* error is e
C16_Witness ==
    /\ WrapsErrors(1) /\ Len(Wrapped) = 1
    /\ last.op = "Newf"
    /\ Len(last.format) = 2
    /\ Unwrap(Inner) = Wrapped[1].e
    /\ Matches(Inner, Wrapped[1].e)

\* the errors the %w verbs of the last call wrap, in order
WrappedErrors == [k \in 1..Len(Wrapped) |-> Wrapped[k].e]

RECURSIVE UnwrapN(_, _)
\* err after n calls of Unwrap
UnwrapN(err, n) == IF n = 0 THEN err ELSE UnwrapN(Unwrap(err), n - 1)

\* C17 as stated: with several %w wrapping e1..en the result has Unwrap()
\* error; its next error matches e2..en and not e1; n-1 calls of Unwrap reach
\* en itself; errors.Is(result, ei) is true for every i
C17_Original ==
    WrapsErrors(2) =>
        LET es == WrappedErrors
            n == Len(es)
        IN /\ Inner.t = "ptr" /\ heap[Inner.a].kind = "withWrapper"
           /\ \A i \in 2..n : Matches(Unwrap(Inner), es[i])
           /\ NoMatch(Unwrap(Inner), es[1])
           /\ UnwrapN(Inner, n - 1) = es[n]
           /\ \A i \in 1..n : Matches(Inner, es[i])

\* C17: with several %w wrapping e1..en the result has Unwrap() error; its
\* next error matches every error of e2..en that can be compared with ==, and
\* does not match e1 when errors.Is(ei, e1) is false for every ei of e2..en;
\* n-1 calls of Unwrap reach en itself; errors.Is(result, ei) is true for
\* every ei that can be compared with ==; for an ei that is a multi-error
\* both are false, for an ei that is a struct value holding a multi-error
\* both panic
C17_LinearChain ==
    WrapsErrors(2) =>
        LET es == WrappedErrors
            n == Len(es)
        IN /\ Inner.t = "ptr" /\ heap[Inner.a].kind = "withWrapper"
           /\ \A i \in 2..n :
                 /\ CanCompare(es[i]) => Matches(Unwrap(Inner), es[i])
                 /\ es[i].t = "multi" => NoMatch(Unwrap(Inner), es[i])
                 /\ ~CanCompare(es[i]) /\ es[i].t # "multi"
                       => IsPanics(Unwrap(Inner), es[i])
           /\ (\A i \in 2..n : NoMatch(es[i], es[1]))
                 => NoMatch(Unwrap(Inner), es[1])
           /\ UnwrapN(Inner, n - 1) = es[n]
           /\ \A i \in 1..n :
                 /\ CanCompare(es[i]) => Matches(Inner, es[i])
                 /\ es[i].t = "multi" => NoMatch(Inner, es[i])
                 /\ ~CanCompare(es[i]) /\ es[i].t # "multi" => IsPanics(Inner, es[i])

\* C17 witness: Joinf("%w: %w: %w", e1, e2, e3) with three different errors
\* returned a chain that reaches e3 after two calls of Unwrap
C17_Witness ==
    /\ WrapsErrors(3)
    /\ Cardinality({WrappedErrors[i] : i \in 1..3}) = 3
    /\ UnwrapN(last.ret, 2) = WrappedErrors[3]
    /\ NoMatch(Unwrap(last.ret), WrappedErrors[1])
    /\ Matches(last.ret, WrappedErrors[1])

\* C18 as stated: the message of the error Joinf or Newf returns is the
\* formatted message, the text fmt.Errorf gives for the format and the
\* operands as they are when the call is made, also when that text is empty
C18_Original ==
    [][FormattedCall' /\ calls' = calls + 1
          => Error(last.ret)' = Sprintf(last'.format, last'.vals, 1)]_vars

(***************************************************************************)
(* Claims about Recover.                                                   *)
(***************************************************************************)
\* C19 as stated: fn is called exactly once when the deferred call runs
\* while a panic unwinds, whatever the value of the panic, and not at all
\* when the function returns
C19_Original ==
    /\ run.pc = "recovered" => run.fn = 1
    /\ run.pc = "returned" => run.fn = 0

\* C19: fn is called exactly once when the deferred call runs while a panic
\* unwinds and recover() returns a value that is not nil, which it does for
\* every panic but panic(nil); it is not called when recover() returns nil
\* for panic(nil), nor when the function returns; before the deferred call
\* runs it has not been called
C19_OncePerRecovered ==
    /\ run.pc = "recovered" => run.fn = (IF last.vals[1] = NilVal THEN 0 ELSE 1)
    /\ run.pc = "recovered" /\ run.panic # NilVal => last.vals[1] = run.panic
    /\ run.pc = "returned" => run.fn = 0
    /\ run.pc \in {"body", "panicking", "returning"} => run.fn = 0

\* C19 witness: a panic with an error of the caller was recovered and fn was
\* called once with an error that holds it
C19_Witness ==
    /\ run.pc = "recovered"
    /\ run.panic.k = "error"
    /\ run.fn = 1
    /\ last.ret # Nil
    /\ heap[Unwrap(last.ret).a].panic = run.panic

\* the function that raised the panic: the one on top of the frames above the
\* deferring function, or that function itself
Raiser == IF run.raised = <<>> THEN run.stk[1] ELSE run.raised[1]

\* C20 as stated: the error fn is passed has a stack trace, and its first
\* frame is the function that deferred Recover, wherever the panic was raised
C20_Original ==
    run.pc = "recovered" /\ last.ret # Nil =>
        /\ StackTrace(last.ret) # <<>>
        /\ StackTrace(last.ret)[1] = run.stk[1]

\* C20: the error fn is passed has a stack trace; its first frame is the
\* function that raised the panic, which is the function that deferred
\* Recover when the panic was raised by a call of panic in that function
C20_FirstFrameIsRaiser ==
    run.pc = "recovered" /\ last.ret # Nil =>
        /\ StackTrace(last.ret) # <<>>
        /\ StackTrace(last.ret)[1] = Raiser
        /\ StackTrace(last.ret) = Take(run.raised \o run.stk, stackTraceDepth)
        /\ run.raised = <<>> => StackTrace(last.ret)[1] = run.stk[1]

\* C20 witness: a panic raised one call below the deferring function was
\* recovered, and the stack trace starts at the function that called panic
C20_Witness ==
    /\ run.pc = "recovered"
    /\ last.ret # Nil
    /\ run.raised = <<"h">>
    /\ StackTrace(last.ret)[1] = "h"
    /\ StackTrace(last.ret)[2] = run.stk[1]


\* FromRecover has returned
FromRecovered == last.op = "FromRecover"

\* C21: FromRecover(nil) is nil; for a recovered value r that is not nil the
\* result has a stack trace that is not empty, its message is "panic: "
\* followed by the text of r, and Panic() gives r back
C21_FromRecover ==
    FromRecovered =>
        LET r == last.vals[1] IN
        /\ r = NilVal <=> last.ret = Nil
        /\ r # NilVal =>
              /\ StackTrace(last.ret) # <<>>
              /\ Error(last.ret) = <<"p", "a", "n", "i", "c", ":", " ">> \o FormatV(r)
              /\ TypeOf(Unwrap(last.ret)) = "panicError"
              /\ panicError_Panic(heap[Unwrap(last.ret).a]) = r

\* C21 witness: FromRecover was called in the deferred closure with the
\* integer 42 a function below had panicked with, and returned an error with
\* the message "panic: 42" and a stack trace that starts where panic was called
C21_Witness ==
    /\ FromRecovered
    /\ last.vals[1] = IntVal(42)
    /\ run.pc = "recovered"
    /\ Error(last.ret) = <<"p", "a", "n", "i", "c", ":", " ", "4", "2">>
    /\ StackTrace(last.ret)[1] = "h"


(***************************************************************************)
(* Claims about values.                                                    *)
(***************************************************************************)
\* the places of the Unwrap chain of err where the key k is annotated
AnnotatedAt(err, k) ==
    {i \in 1..Len(Chain(err)) :
        /\ Chain(err)[i].t = "ptr"
        /\ heap[Chain(err)[i].a].kind = "value"
        /\ heap[Chain(err)[i].a].key = k}

\* C22: Values(err) has exactly the keys annotated on the Unwrap chain of err,
\* each with the value of its outermost annotation; without annotations it is
\* empty
C22_OutermostValue ==
    \A e \in pool \cup {last.ret} :
        /\ DOMAIN Values(e) = {k \in Keys : AnnotatedAt(e, k) # {}}
        /\ \A k \in DOMAIN Values(e) :
              LET i == CHOOSE i \in AnnotatedAt(e, k) :
                           \A j \in AnnotatedAt(e, k) : i <= j
              IN Values(e)[k] = heap[Chain(e)[i].a].value

\* C22 witness: the key k was annotated with 1 and then with 2; Values
\* gives 2 for it
C22_Witness ==
    /\ last.op = "WithValue"
    /\ last.ret # Nil
    /\ last.vals = <<StrVal(<<"k">>), IntVal(2)>>
    /\ Cardinality(AnnotatedAt(last.ret, <<"k">>)) = 2
    /\ heap[Unwrap(last.ret).a].value = IntVal(1)
    /\ Values(last.ret) = [k \in {<<"k">>} |-> IntVal(2)]


(***************************************************************************)
(* Claims about the identity of errors.                                    *)
(***************************************************************************)
\* the message errors the caller holds
HeldMessages == {e \in pool : e.t = "ptr" /\ heap[e.a].kind = "messageError"}

\* C23: the error Message or Messagef returns is a new one: it is none of
\* the message errors made before, whatever their text, errors.Is matches it
\* with none of them in either direction, and errors.Is(x, x) is true
C23_DistinctInstances ==
    last.op \in {"Message", "Messagef"} =>
        /\ \A y \in HeldMessages :
              /\ last.ret # y
              /\ NoMatch(last.ret, y)
              /\ NoMatch(y, last.ret)
        /\ Matches(last.ret, last.ret)

\* C23 witness: Messagef returned an error with the text "a" while the
\* caller holds another error with the text "a"
C23_Witness ==
    /\ last.op = "Messagef"
    /\ Error(last.ret) = <<"a">>
    /\ \E y \in HeldMessages : Error(y) = <<"a">> /\ y # last.ret
    /\ Matches(last.ret, last.ret)


(***************************************************************************)
(* Claims about the writers of Fprint and Print (SpecWrite).               *)
(***************************************************************************)
\* the last call rendered an error to the writer w
WroteTo(op) == last.op = op /\ Len(last.vals) = 1 /\ last.vals[1].k = "io.Writer"

\* C24: Fprint(w, err) hands w the text Sprint(err) returns and returns the
\* byte count and the error of w's write as they are; when the write
\* succeeds the count is the length of the text
C24_FprintReturnsWrite ==
    WroteTo("Fprint") =>
        LET r == Write(last.vals[1], Sprint(last.err)) IN
        /\ out = Sprint(last.err)
        /\ last.results[1] = r.n
        /\ last.results[2] = r.err
        /\ (last.results[2] = NilVal => last.results[1] = Len(Sprint(last.err)))

\* C24 witness: Fprint wrote to a writer that took MaxRoom bytes of a longer
\* text, and returned that count with the error of the writer
C24_Witness ==
    /\ WroteTo("Fprint")
    /\ Len(out) > MaxRoom
    /\ last.results = <<MaxRoom, ErrShortWrite>>

\* C25 as stated: when errWriter reports a failure during Print(err), the
\* caller of Print is returned that failure
C25_Original ==
    (WroteTo("Print") /\ Write(last.vals[1], out).err # NilVal) =>
        /\ Len(last.results) >= 1
        /\ last.results[Len(last.results)] = Write(last.vals[1], out).err

\* C25: Print hands errWriter the text Sprint(err) returns, returns without
\* a panic also when errWriter reports a failure, and has no result: the
\* failure is dropped
C25_FailureDropped ==
    WroteTo("Print") =>
        /\ out = Sprint(last.err)
        /\ last.panic = NilVal
        /\ last.results = <<>>

\* C25 witness: Print wrote to a closed errWriter, returned, and returned
\* nothing
C25_Witness ==
    /\ WroteTo("Print")
    /\ Write(last.vals[1], out).err = ErrClosed
    /\ last.panic = NilVal
    /\ last.results = <<>>


(***************************************************************************)
(* Claims about the sharing of child lists (SpecShared).                   *)
(***************************************************************************)
\* C26 as stated: a multi-error that was returned is never changed by a
\* later call of Append, also one that takes the same first argument: after
\* p := Append(m, x) and q := Append(m, y), p still has the children it was
\* returned with, its own last child among them
C26_Original ==
    last.op = "AppendTwice" => ChildrenIn(arrays, last.p) = last.pErrs


(***************************************************************************)
(* Claims about the errors StackTrace looks at (SpecRender).               *)
(***************************************************************************)
\* the stacks of the nodes of a sequence of stacks
StackSet(stacks) == {stacks[i] : i \in 1..Len(stacks)}

\* the errors the caller holds or was just returned
Held == (pool \cup {last.ret}) \ {Nil}

\* C27: StackTrace(err) looks only at the errors met by walking Unwrap() error
\* from err: it returns the stack of one of them, and the empty trace when
\* none of them carries one, also when the wrapper of a withWrapper or the
\* children of a multi-error carry stacks
C27_PrimaryChainOnly ==
    \A e \in Held :
        IF AllStacks(e) = <<>> THEN StackTrace(e) = <<>>
        ELSE StackTrace(e) \in StackSet(AllStacks(e))

\* C27 witness: Join returned a withWrapper whose wrapper carries a stack
\* and whose next error carries none, and StackTrace of it is empty
C27_Witness ==
    /\ last.op = "Join"
    /\ last.ret # Nil
    /\ heap[last.ret.a].kind = "withWrapper"
    /\ StackTrace(heap[last.ret.a].wrapper) # <<>>
    /\ AllStacks(heap[last.ret.a].err) = <<>>
    /\ StackTrace(last.ret) = <<>>


(***************************************************************************)
(* Claims about the frames of a stack trace (SpecFrames).                  *)
(***************************************************************************)
\* the last call was Frames or String on the stack trace of an error
FramesCall == last.op \in {"Frames", "String", "panic"} /\ last.err # Nil

\* the number of newlines of a text
NumLines(text) == Cardinality({i \in 1..Len(text) : text[i] = NL})

\* C28 as stated: Frames() and String() succeed for every Callers value, the
\* empty one of an error without a stack among them: Frames() returns len(c)
\* frames and String() one line for each frame
C28_Original ==
    FramesCall =>
        /\ last.op # "panic"
        /\ last.op = "Frames" => Len(last.frames) = Len(last.stk)
        /\ last.op = "String" => NumLines(out) = Len(last.stk)


(***************************************************************************)
(* Claims about the shape of the error graphs (SpecJoinf, SpecShared).     *)
(***************************************************************************)
\* the nodes that have a next error: wrappers, stack nodes and value nodes
HasNext(n) == n.kind \in {"withWrapper", "withStackTrace", "value"}

\* no node with a next error has a nil one
NoNilNext == \A a \in 1..Len(heap) : HasNext(heap[a]) => heap[a].err # Nil

\* the error values of the graphs: those the caller holds and those the
\* nodes and the lists refer to
GraphErrs ==
    (Held \cup {heap[a].err : a \in 1..Len(heap)}
          \cup {heap[a].wrapper : a \in 1..Len(heap)}
          \cup UNION {{arrays[a].elems[i] : i \in 1..Len(arrays[a].elems)}
                         : a \in 1..Len(arrays)})
        \ {Nil}

\* every multi-error has two children at least, none of them nil
MultiWellFormed ==
    \A e \in GraphErrs :
        e.t = "multi" => e.n >= 2 /\ \A i \in 1..e.n : Children(e)[i] # Nil

\* C29 as stated: in every graph the builders make, no wrapper, stack node
\* or value node has a nil next error, and every multi-error has two
\* children at least, none of them nil
C29_Original == NoNilNext /\ MultiWellFormed


\* the errors an error refers to directly: its wrapper and its next error,
\* or its children
Refs(e) ==
    (IF e.t = "multi" THEN {Children(e)[i] : i \in 1..e.n}
     ELSE {heap[e.a].wrapper, heap[e.a].err}) \ {Nil}

RECURSIVE ReachedIn(_, _)
\* the errors met on the paths of k references and fewer that start at the
\* errors of S
ReachedIn(S, k) ==
    IF k = 0 THEN S
    ELSE LET T == S \cup UNION {Refs(e) : e \in S} IN
         IF T = S THEN S ELSE ReachedIn(T, k - 1)

\* the errors below e
Below(e) == ReachedIn(Refs(e), Cardinality(GraphErrs))

\* C30 as stated: every graph the builders make is acyclic: no error the
\* caller holds, and none below it, is below itself, so a walk from it ends
\* after a number of steps its graph bounds
C30_Original == \A e \in Held : \A d \in {e} \cup Below(e) : d \notin Below(d)

====
